---------------------------- MODULE Spec2Model ----------------------------
(***************************************************************************)
(* Model of the medicine-inventory bot (src/main.py): the FSM storage of   *)
(* the dispatcher, the medicine collection with its unique compound index, *)
(* and the message / callback handlers of the add flow, the edit flow,     *)
(* cancellation and deletion.                                              *)
(*                                                                         *)
(* The dispatcher is built without event isolation and polling handles     *)
(* every update as a task of its own, so the handlers of one conversation  *)
(* interleave at their awaits.  The model lets other handlers run while a  *)
(* handler awaits the database (find_one, insert_one, update_one): such a  *)
(* handler is a task with a program position, and a step of the model is   *)
(* what the handler does from one database await to the next.  A call to   *)
(* the gateway (send, edit, delete, answer) returns within the step that   *)
(* makes it.  MemoryStorage's own coroutines never suspend.                *)
(***************************************************************************)
EXTENDS Integers, Sequences, FiniteSets, TLC

\* ------------------------------------------------------------------------
\* Bounds of the model
\* ------------------------------------------------------------------------
\* handler tasks suspended at an await at the same time
MaxTasks == 2
\* the same where the edit flow runs too
MaxTasksEdit == 1
\* ObjectIds the collection hands out in one run
MaxOid == 2
\* midnights that pass in one run
MaxDayTicks == 1

\* ------------------------------------------------------------------------
\* Conversations: the FSM key is (chat, user).  User 1 talks to the bot in
\* a private chat and in a group chat, user 2 in a private chat.
\* ------------------------------------------------------------------------
Convs == {"u1_private", "u1_group", "u2_private"}
ConvUser(c) == IF c = "u2_private" THEN 2 ELSE 1
ConvChat(c) == CASE c = "u1_private" -> 1 [] c = "u2_private" -> 2 [] OTHER -> 9
\* message ids of a chat are 1 and 2; 0 stands for None.  A flow starts on
\* message 1, and a message sent later gets an id that differs from the one
\* it replaces.
StartMsgIds == {1}
NewMsgId(old) == IF old = 1 THEN 2 ELSE 1
\* the sets of conversations a run has
Configs == { {"u1_private", "u1_group"}, {"u1_private", "u2_private"} }

\* ------------------------------------------------------------------------
\* Texts are sequences of characters; << >> is the empty string, which the
\* code's truth tests treat like None.
\* ------------------------------------------------------------------------
NoText == << >>
DigitChars == <<"0", "1", "2", "3", "4", "5", "6", "7", "8", "9">>
IsDigit(ch) == \E i \in 1..10 : DigitChars[i] = ch
DigitVal(ch) == (CHOOSE i \in 1..10 : DigitChars[i] = ch) - 1

\* str.lower()
LowerChar(ch) ==
    CASE ch = "A" -> "a" [] ch = "B" -> "b"
      [] ch = "ru_A" -> "ru_a" [] ch = "ru_B" -> "ru_b" [] OTHER -> ch
Lower(s) == [i \in 1..Len(s) |-> LowerChar(s[i])]

\* the text as typed
NoStrip(s) == s
\* str.strip()
RECURSIVE LStrip(_)
LStrip(s) == IF s # << >> /\ Head(s) = " " THEN LStrip(Tail(s)) ELSE s
RECURSIVE RStrip(_)
RStrip(s) ==
    IF s # << >> /\ s[Len(s)] = " " THEN RStrip(SubSeq(s, 1, Len(s) - 1)) ELSE s
Strip(s) == RStrip(LStrip(s))

\* ------------------------------------------------------------------------
\* Dates are <<year, month, day>>; NoDate is a failed parse.
\* ------------------------------------------------------------------------
NoDate == <<0, 0, 0>>
IsLeap(y) == (y % 4 = 0 /\ y % 100 # 0) \/ y % 400 = 0
DaysInMonth(y, m) ==
    CASE m \in {4, 6, 9, 11} -> 30
      [] m = 2 -> IF IsLeap(y) THEN 29 ELSE 28
      [] OTHER -> 31
\* a comparison that finds no date earlier than another
NeverBefore(a, b) == FALSE
\* date.__lt__
DateLT(a, b) ==
    \/ a[1] < b[1]
    \/ a[1] = b[1] /\ a[2] < b[2]
    \/ a[1] = b[1] /\ a[2] = b[2] /\ a[3] < b[3]
NextDay(d) ==
    IF d[3] < DaysInMonth(d[1], d[2]) THEN <<d[1], d[2], d[3] + 1>>
    ELSE IF d[2] < 12 THEN <<d[1], d[2] + 1, 1>>
    ELSE <<d[1] + 1, 1, 1>>

AllDigits(s) == \A i \in 1..Len(s) : IsDigit(s[i])
RECURSIVE NumVal(_)
NumVal(s) ==
    IF s = << >> THEN 0
    ELSE 10 * NumVal(SubSeq(s, 1, Len(s) - 1)) + DigitVal(s[Len(s)])
RECURSIVE SplitDash(_)
SplitDash(s) ==
    IF \E i \in 1..Len(s) : s[i] = "-"
    THEN LET i == CHOOSE k \in 1..Len(s) :
                      s[k] = "-" /\ \A j \in 1..(k - 1) : s[j] # "-"
         IN  <<SubSeq(s, 1, i - 1)>> \o SplitDash(SubSeq(s, i + 1, Len(s)))
    ELSE <<s>>

\* datetime.strptime(text, "%Y-%m-%d").date(): four digits of year, one or
\* two digits of month and of day, and the whole text consumed; a ValueError
\* is NoDate.
strptime(s) ==
    LET p == SplitDash(s) IN
    IF /\ Len(p) = 3
       /\ Len(p[1]) = 4 /\ AllDigits(p[1]) /\ NumVal(p[1]) >= 1
       /\ Len(p[2]) \in {1, 2} /\ AllDigits(p[2]) /\ NumVal(p[2]) \in 1..12
       /\ Len(p[3]) \in {1, 2} /\ AllDigits(p[3])
       /\ NumVal(p[3]) \in 1..DaysInMonth(NumVal(p[1]), NumVal(p[2]))
    THEN <<NumVal(p[1]), NumVal(p[2]), NumVal(p[3])>>
    ELSE NoDate

Pad2(n) == <<DigitChars[(n \div 10) + 1], DigitChars[(n % 10) + 1]>>
Pad4(n) == Pad2(n \div 100) \o Pad2(n % 100)
\* date.isoformat()
isoformat(d) == Pad4(d[1]) \o <<"-">> \o Pad2(d[2]) \o <<"-">> \o Pad2(d[3])

\* ------------------------------------------------------------------------
\* Inputs
\* ------------------------------------------------------------------------
Today0 == <<2025, 12, 31>>
NameTexts == {<<" ">>, <<"a">>, <<"A", " ">>, <<"b">>}
QuantityTexts == {<<" ">>, <<" ", "5">>}
NotesTexts == {<<" ">>, <<"-">>}
DateTexts ==
    { <<"x">>,
      <<"2", "0", "2", "5", "-", "1", "2", "-", "3", "0">>,
      <<"2", "0", "2", "5", "-", "1", "2", "-", "3", "1">>,
      <<"2", "0", "2", "6", "-", "1", "-", "2", " ">> }
\* the pages a list or paging button asks for
MaxPage == 3
Pages == 1..MaxPage
\* what a user types as an inline query
SearchTexts == { <<" ">>, <<"a">>, <<"B", " ">> }
\* the shortest name found for the barcode of a photo; NoText when none is
BarcodeNames == { NoText, <<"a">>, <<"B">> }
\* the photos sent: whether the download and the decoding give something,
\* how the request of the page ends, and the names in the rows of the page
Photo(download, barcode, fetch, rows) ==
    [ download |-> download, barcode |-> barcode, fetch |-> fetch,
      rows |-> rows ]
BarcodePages ==
    { << >>, <<NoText>>, << <<"a">> >>, << <<"a">>, <<"B">> >>,
      << <<"B">>, <<"a">> >>, << <<"a">>, NoText, <<"B">> >>,
      << <<"B">>, <<"a", " ", "b">>, <<"B">> >> }
BarcodePhotos ==
    { Photo(FALSE, FALSE, "ok", << <<"a">> >>),
      Photo(TRUE, FALSE, "ok", << <<"a">> >>),
      Photo(TRUE, TRUE, "timeout", << <<"a">> >>),
      Photo(TRUE, TRUE, "client_error", << <<"a">> >>) }
    \cup { Photo(TRUE, TRUE, "ok", rows) : rows \in BarcodePages }
\* the days of the calendar buttons a user presses
CalendarDays == { <<2025, 12, 30>>, <<2026, 1, 2>> }
EditFields == {"name", "quantity", "notes", "exp_date"}
\* what a user types as the new value of a field
NewValueTexts(field) ==
    CASE field = "name" -> { <<" ">>, <<"a">>, <<"B">> }
      [] field = "quantity" -> { <<" ">>, <<"7">> }
      [] field = "notes" -> { <<" ">>, <<"n">> }
      [] OTHER -> { <<"x">>,
                    <<"2", "0", "2", "5", "-", "1", "2", "-", "3", "0">>,
                    <<"2", "0", "2", "6", "-", "0", "1", "-", "0", "2">> }
AllNewValueTexts == UNION {NewValueTexts(f) : f \in EditFields}

\* ------------------------------------------------------------------------
\* State
\* ------------------------------------------------------------------------
VARIABLES
    convs,           \* the conversations of the run
    max_tasks,       \* the handlers that may await the database at once
    med_collection,  \* the documents of the collection
    next_oid,        \* the next ObjectId insert_one assigns
    fsm_state,       \* MemoryStorage: the state of each conversation
    fsm_data,        \* MemoryStorage: the data of each conversation
    tasks,           \* the handler tasks awaiting the database
    today,           \* datetime.date.today()
    day_ticks,       \* midnights passed
    out              \* the last call to the gateway, or the exception raised

vars == <<convs, max_tasks, med_collection, next_oid, fsm_state, fsm_data, tasks, today,
          day_ticks, out>>

\* AddMedicine / EditMedicine states; "none" is no state
WaitingName == "AddMedicine:waiting_for_name"
WaitingQuantity == "AddMedicine:waiting_for_quantity"
WaitingNotes == "AddMedicine:waiting_for_notes"
WaitingExpiry == "AddMedicine:waiting_for_exp_date"
WaitingNewValue == "EditMedicine:waiting_for_new_value"
NoState == "none"
AddStates == {WaitingName, WaitingQuantity, WaitingNotes, WaitingExpiry}

\* an inline message token; message ids are positive, 0 is None
InlineToken == -1

EmptyData ==
    [ prompt_chat_id |-> 0, prompt_message_id |-> 0,
      calendar_message_id |-> 0, inline_message_id |-> 0,
      name |-> NoText, name_lower |-> NoText, quantity |-> NoText,
      notes |-> NoText, exp_date |-> NoText,
      med_id |-> 0, med_name |-> NoText, field_to_edit |-> "",
      calendar_year |-> 0, calendar_month |-> 0 ]

\* FSMContext.update_data: the keys given replace those stored
update_data(d, upd) ==
    [k \in DOMAIN d |-> IF k \in DOMAIN upd THEN upd[k] ELSE d[k]]

NoDoc ==
    [ name |-> NoText, name_lower |-> NoText, quantity |-> NoText,
      notes |-> NoText, exp_date |-> NoText ]

\* the reminder of one user: the lines of its two sections
NoDigest == [ soon |-> << >>, expired |-> << >> ]
\* what a run of daily_reminder holds: the day it runs on, the users still
\* to check and the documents found for the first of them; sent and store
\* record the reminders the run has handed to send_message and the
\* collections its queries have read, and last keeps this record of the run
\* before
NoSweep ==
    [ today |-> NoDate, users |-> << >>, soon |-> << >>,
      sent |-> {}, store |-> {}, last |-> << >> ]

NoTask ==
    [ conv |-> "", h |-> "", pc |-> "", k |-> 0, txt |-> NoText,
      chat |-> 0, msg |-> 0, inline |-> 0, med |-> 0, field |-> "",
      doc |-> NoDoc, sweep |-> NoSweep ]

NoOut ==
    [ by |-> "", conv |-> "", op |-> "", view |-> "", chat |-> 0, msg |-> 0,
      shown |-> << >>, nav |-> {}, page |-> 0, next_offset |-> NoText,
      inline_query |-> NoText, inline_offset |-> NoText,
      digest |-> NoDigest ]

\* a call to the gateway by the function by: op is edit (safe_edit_message),
\* send, reply or alert (callback.answer); msg is a message id or an inline
\* token.  An exception that leaves the handler is recorded with op raise.
Gateway(by, c, op, view, chat, msg) ==
    [ by |-> by, conv |-> c, op |-> op, view |-> view, chat |-> chat,
      msg |-> msg, shown |-> << >>, nav |-> {}, page |-> 0,
      next_offset |-> NoText, inline_query |-> NoText,
      inline_offset |-> NoText, digest |-> NoDigest ]
\* the call g renders the documents with the ids shown, in this order, and
\* the paging controls nav
Showing(g, shown, nav) == [g EXCEPT !.shown = shown, !.nav = nav]
\* create_calendar: the year and month of the header; every button carries
\* them, and a day button its day
create_calendar(year, month) == <<year, month>>
\* the callback data of the day buttons of the calendar cal
day_buttons(cal) ==
    {<<cal[1], cal[2], day>> : day \in 1..DaysInMonth(cal[1], cal[2])}

CanSpawn == Cardinality(tasks) < max_tasks
\* a new task; k tells two tasks apart that are otherwise equal
WithTask(S, t) ==
    LET k == CHOOSE n \in 1..(Cardinality(S) + 1) :
                 /\ [t EXCEPT !.k = n] \notin S
                 /\ \A j \in 1..(n - 1) : [t EXCEPT !.k = j] \in S
    IN  S \cup {[t EXCEPT !.k = k]}
Spawned(t) == WithTask(tasks, t)
Moved(t, t2) == WithTask(tasks \ {t}, t2)
Finished(t) == tasks \ {t}

\* a clear that leaves the context as it is
NotCleared(f, c, empty) == f
\* FSMContext.clear
Cleared(f, c, empty) == [f EXCEPT ![c] = empty]

\* ------------------------------------------------------------------------
\* The collection
\* ------------------------------------------------------------------------
\* a find by id without the filter on the owner
find_by_id_of_anyone(oid, user) == {m \in med_collection : m._id = oid}
find_by_name(name_lower, user) ==
    {m \in med_collection : m.name_lower = name_lower /\ m.added_by = user}
find_by_id(oid, user) ==
    {m \in med_collection : m._id = oid /\ m.added_by = user}
\* a collection without the unique index
NoIndex(user, name_lower, except_id) == FALSE
\* a key check that counts the document except_id too
DuplicateKeyWithSelf(user, name_lower, except_id) ==
    \E m \in med_collection :
        m.added_by = user /\ m.name_lower = name_lower
\* the unique index on (added_by, name_lower): a document other than
\* except_id holds the key
DuplicateKey(user, name_lower, except_id) ==
    \E m \in med_collection :
        m.added_by = user /\ m.name_lower = name_lower /\ m._id # except_id

\* the order of the code points of the characters the texts are made of
CharOrder ==
    <<" ", "-", "/", "0", "1", "2", "3", "4", "5", "6", "7", "8", "9",
      "A", "B", "a", "b", "d", "h", "i", "l", "n", "p", "s", "t", "x",
      "ru_A", "ru_B", "ru_a", "ru_b", "ru_n", "ru_p", "ru_s", "ru_t",
      "ru_h", "ru_ts", "ru_sh">>
\* the place of each character in that order
CharCodes ==
    [ch \in {CharOrder[i] : i \in 1..Len(CharOrder)} |->
        CHOOSE i \in 1..Len(CharOrder) : CharOrder[i] = ch]
CharCode(ch) == CharCodes[ch]
\* the order of strings a sort on a string field uses
StrLT(a, b) ==
    \E i \in 1..Len(b) :
        /\ \A j \in 1..(i - 1) : j <= Len(a) /\ a[j] = b[j]
        /\ (i > Len(a) \/ CharCode(a[i]) < CharCode(b[i]))
\* cursor.sort("name_lower").to_list()
RECURSIVE SortedByNameLower(_)
SortedByNameLower(S) ==
    IF S = {} THEN << >>
    ELSE LET m == CHOOSE x \in S :
                      \A y \in S \ {x} : ~StrLT(y.name_lower, x.name_lower)
         IN  <<m>> \o SortedByNameLower(S \ {m})
\* _get_user_medicines over the collection coll
get_user_medicines(coll, user_id) ==
    SortedByNameLower({m \in coll : m.added_by = user_id})

MEDS_PER_PAGE == 5
\* a keyboard that pages by position from the end of the list
get_medicine_list_keyboard_from_end(medicines, current_page) ==
    LET total_items == Len(medicines)
        total_pages == (total_items + MEDS_PER_PAGE - 1) \div MEDS_PER_PAGE
        last == total_items - (current_page - 1) * MEDS_PER_PAGE
        first == IF last - MEDS_PER_PAGE + 1 < 1 THEN 1
                 ELSE last - MEDS_PER_PAGE + 1
    IN  [ shown |-> IF last < 1 THEN << >>
                    ELSE [i \in 1..(last - first + 1) |->
                             medicines[first + i - 1]._id],
          nav |-> (IF current_page > 1 THEN {"prev"} ELSE {}) \cup
                  (IF current_page < total_pages THEN {"next"} ELSE {}) ]
\* get_medicine_list_keyboard: the ids of the buttons of the page, in
\* order, and the paging controls
get_medicine_list_keyboard(medicines, current_page) ==
    LET total_items == Len(medicines)
        total_pages == (total_items + MEDS_PER_PAGE - 1) \div MEDS_PER_PAGE
        start_index == (current_page - 1) * MEDS_PER_PAGE
        end_index == IF start_index + MEDS_PER_PAGE < total_items
                     THEN start_index + MEDS_PER_PAGE ELSE total_items
    IN  [ shown |-> IF start_index >= total_items THEN << >>
                    ELSE [i \in 1..(end_index - start_index) |->
                             medicines[start_index + i]._id],
          nav |-> (IF current_page > 1 THEN {"prev"} ELSE {}) \cup
                  (IF current_page < total_pages THEN {"next"} ELSE {}) ]
\* _show_user_medicine_list: the list of the user rendered on the message;
\* out.page is the page number the rendering is made for
show_user_medicine_list(by, c, view, coll, chat_id, message_id, page) ==
    LET kb == get_medicine_list_keyboard(
                  get_user_medicines(coll, ConvUser(c)), page)
    IN  [Showing(Gateway(by, c, "edit", view, chat_id, message_id),
                 kb.shown, kb.nav) EXCEPT !.page = page]

\* the state after start-up with the conversations cs and the documents
\* docs in the collection
Start(cs, n, docs, oid) ==
    /\ convs = cs
    /\ max_tasks = n
    /\ med_collection = docs
    /\ next_oid = oid
    /\ fsm_state = [c \in Convs |-> NoState]
    /\ fsm_data = [c \in Convs |-> EmptyData]
    /\ tasks = {}
    /\ today = Today0
    /\ day_ticks = 0
    /\ out = NoOut

Init == \E cs \in Configs : Start(cs, MaxTasks, {}, 1)

\* ------------------------------------------------------------------------
\* safe_edit_message: what the gateway answers to the edit
\* ------------------------------------------------------------------------
\* ok: edited; not_modified: "message is not modified"; not_found: not
\* found, too old or invalid id; error: any other failure
EditResults == {"ok", "not_modified", "not_found", "error"}
\* the answers of the gateway to a prompt: with send_error the edit fails
\* with another error and every send_message after it fails too
SendError == "send_error"
RenderResults == EditResults \cup {SendError}
\* bot.send_message raises
send_message_raises(by, c, chat) ==
    Gateway(by, c, "raise", "TelegramAPIError", chat, 0)
\* a safe_edit_message that reports "message is not modified" as a failure
safe_edit_message_strict(r, chat, msg, inline) ==
    IF ~(chat # 0 /\ msg # 0) /\ inline = 0 THEN FALSE
    ELSE r = "ok" \/ (r = "not_found" /\ chat # 0)
\* the value safe_edit_message returns: after not_found a new message is
\* sent when a chat is known, and the call reports success
safe_edit_message(r, chat, msg, inline) ==
    IF ~(chat # 0 /\ msg # 0) /\ inline = 0 THEN FALSE
    ELSE r \in {"ok", "not_modified"} \/ (r = "not_found" /\ chat # 0)
\* the call safe_edit_message has made to the gateway when it reports
\* success: the edit, or after not_found the new message it sent itself
Rendered(by, c, r, view, chat, msg, inline) ==
    IF r = "not_found" /\ chat # 0
    THEN Gateway(by, c, "fallback_send", view, chat, NewMsgId(msg))
    ELSE Gateway(by, c, "edit", view, chat,
                 IF inline # 0 THEN inline ELSE msg)

\* ------------------------------------------------------------------------
\* Starting the add flow
\* ------------------------------------------------------------------------
\* /add: the prompt is sent as message m, the state set, the prompt bound
add_medicine_command(c, m) ==
    /\ fsm_state[c] = NoState
    /\ fsm_state' = [fsm_state EXCEPT ![c] = WaitingName]
    /\ fsm_data' = [fsm_data EXCEPT ![c] = update_data(@,
           [prompt_chat_id |-> ConvChat(c), prompt_message_id |-> m])]
    /\ out' = Gateway("add_medicine_command", c, "send", "prompt_name", ConvChat(c), m)
    /\ UNCHANGED <<convs, max_tasks, med_collection, next_oid, tasks, today, day_ticks>>

\* the add button on the ordinary message m
add_medicine_callback_start(c, m, r) ==
    /\ fsm_state[c] = NoState
    /\ fsm_state' = [fsm_state EXCEPT ![c] = WaitingName]
    /\ fsm_data' = [fsm_data EXCEPT ![c] = update_data(@,
           [prompt_chat_id |-> ConvChat(c), prompt_message_id |-> m])]
    /\ out' = Rendered("add_medicine_callback_start", c, r, "prompt_name",
                       ConvChat(c), m, 0)
    /\ UNCHANGED <<convs, max_tasks, med_collection, next_oid, tasks, today, day_ticks>>

\* ------------------------------------------------------------------------
\* Cancelling
\* ------------------------------------------------------------------------
\* the message id a cancel renders the main menu on
CancelMessage(d) ==
    IF d.calendar_message_id # 0 THEN d.calendar_message_id
    ELSE d.prompt_message_id

\* a /cancel that destroys the context only after the main menu is rendered
cancel_handler_clears_after_render(c, r) ==
    LET d == fsm_data[c]
        rendered == safe_edit_message(r, d.prompt_chat_id, CancelMessage(d),
                                      d.inline_message_id)
    IN
    /\ fsm_state[c] # NoState
    /\ fsm_state' = IF rendered THEN Cleared(fsm_state, c, NoState) ELSE fsm_state
    /\ fsm_data' = IF rendered THEN Cleared(fsm_data, c, EmptyData) ELSE fsm_data
    /\ out' = Rendered("cancel_handler", c, r, "main_menu", d.prompt_chat_id,
                       CancelMessage(d), d.inline_message_id)
    /\ UNCHANGED <<convs, max_tasks, med_collection, next_oid, tasks, today, day_ticks>>

\* /cancel or the typed keyword; r is the answer of the gateway to the edit
\* show_main_menu_message asks for, and nothing reads it
cancel_handler(c, r) ==
    LET d == fsm_data[c] IN
    /\ IF fsm_state[c] = NoState
       THEN /\ out' = Gateway("cancel_handler", c, "reply", "nothing_to_cancel", ConvChat(c), 0)
            /\ UNCHANGED <<fsm_state, fsm_data>>
       ELSE /\ fsm_state' = Cleared(fsm_state, c, NoState)
            /\ fsm_data' = Cleared(fsm_data, c, EmptyData)
            /\ out' = IF d.inline_message_id # 0
                      THEN Rendered("cancel_handler", c, r, "main_menu", 0, 0,
                                    d.inline_message_id)
                      ELSE IF d.prompt_chat_id # 0 /\ CancelMessage(d) # 0
                      THEN Rendered("cancel_handler", c, r, "main_menu",
                                    d.prompt_chat_id, CancelMessage(d), 0)
                      ELSE Gateway("cancel_handler", c, "send", "main_menu", ConvChat(c), 0)
    /\ UNCHANGED <<convs, max_tasks, med_collection, next_oid, tasks, today, day_ticks>>

\* a cancel button that renders the main menu and keeps the context
cancel_action_keeps_context(c, m, r) ==
    LET d == fsm_data[c] IN
    /\ out' = IF fsm_state[c] = NoState
              THEN Rendered("cancel_action_callback", c, r, "main_menu",
                            ConvChat(c), m, 0)
              ELSE IF d.inline_message_id # 0
              THEN Rendered("cancel_action_callback", c, r, "main_menu", 0, 0,
                            d.inline_message_id)
              ELSE IF d.prompt_chat_id # 0 /\ CancelMessage(d) # 0
              THEN Rendered("cancel_action_callback", c, r, "main_menu",
                            d.prompt_chat_id, CancelMessage(d), 0)
              ELSE Gateway("cancel_action_callback", c, "alert", "cancelled",
                           ConvChat(c), 0)
    /\ UNCHANGED <<convs, max_tasks, med_collection, next_oid, fsm_state,
                   fsm_data, tasks, today, day_ticks>>

\* the cancel button; m is the message the button is on, r the answer of
\* the gateway to the edit show_main_menu_message asks for
cancel_action_callback(c, m, r) ==
    LET d == fsm_data[c] IN
    /\ IF fsm_state[c] = NoState
       THEN /\ out' = Rendered("cancel_action_callback", c, r, "main_menu",
                               ConvChat(c), m, 0)
            /\ UNCHANGED <<fsm_state, fsm_data>>
       ELSE /\ fsm_state' = Cleared(fsm_state, c, NoState)
            /\ fsm_data' = Cleared(fsm_data, c, EmptyData)
            /\ out' = IF d.inline_message_id # 0
                      THEN Rendered("cancel_action_callback", c, r, "main_menu", 0, 0,
                                    d.inline_message_id)
                      ELSE IF d.prompt_chat_id # 0 /\ CancelMessage(d) # 0
                      THEN Rendered("cancel_action_callback", c, r, "main_menu",
                                    d.prompt_chat_id, CancelMessage(d), 0)
                      ELSE Gateway("cancel_action_callback", c, "alert", "cancelled", ConvChat(c), 0)
    /\ UNCHANGED <<convs, max_tasks, med_collection, next_oid, tasks, today, day_ticks>>

\* ------------------------------------------------------------------------
\* The add flow
\* ------------------------------------------------------------------------
\* a name typed in waiting_for_name, up to the await of find_one
process_medicine_name_text(c, text) ==
    LET name == Strip(text)
        d == fsm_data[c]
    IN
    /\ fsm_state[c] = WaitingName
    /\ IF d.prompt_chat_id = 0 \/ d.prompt_message_id = 0
       THEN /\ out' = Gateway("process_medicine_name_text", c, "reply", "state_error", ConvChat(c), 0)
            /\ fsm_state' = Cleared(fsm_state, c, NoState)
            /\ fsm_data' = Cleared(fsm_data, c, EmptyData)
            /\ UNCHANGED tasks
       ELSE IF name = NoText
       THEN /\ out' = Gateway("process_medicine_name_text", c, "edit", "name_empty", d.prompt_chat_id,
                              d.prompt_message_id)
            /\ UNCHANGED <<fsm_state, fsm_data, tasks>>
       ELSE /\ CanSpawn
            /\ tasks' = Spawned([NoTask EXCEPT
                   !.conv = c, !.h = "name_text", !.pc = "find_one",
                   !.txt = name, !.chat = d.prompt_chat_id,
                   !.msg = d.prompt_message_id])
            /\ UNCHANGED <<fsm_state, fsm_data, out>>
    /\ UNCHANGED <<convs, max_tasks, med_collection, next_oid, today, day_ticks>>

\* find_one has answered: the duplicate warning, or the name is stored, the
\* state set and the quantity prompt rendered
name_text_found(t, r) ==
    LET c == t.conv
        name_lower == Lower(t.txt)
    IN
    /\ t \in tasks /\ t.h = "name_text" /\ t.pc = "find_one"
    /\ tasks' = Finished(t)
    /\ IF find_by_name(name_lower, ConvUser(c)) # {}
       THEN /\ out' = Gateway("process_medicine_name_text", c, "edit", "name_duplicate", t.chat, t.msg)
            /\ UNCHANGED <<fsm_state, fsm_data>>
       ELSE /\ fsm_state' = [fsm_state EXCEPT ![c] = WaitingQuantity]
            /\ IF safe_edit_message(r, t.chat, t.msg, 0)
               THEN /\ fsm_data' = [fsm_data EXCEPT ![c] = update_data(@,
                           [name |-> t.txt, name_lower |-> name_lower])]
                    /\ out' = Rendered("process_medicine_name_text", c, r,
                                       "prompt_quantity", t.chat, t.msg, 0)
               ELSE IF r = SendError
               THEN /\ fsm_data' = [fsm_data EXCEPT ![c] = update_data(@,
                           [name |-> t.txt, name_lower |-> name_lower])]
                    /\ out' = send_message_raises(
                                  "process_medicine_name_text", c, t.chat)
               ELSE /\ fsm_data' = [fsm_data EXCEPT ![c] = update_data(@,
                           [name |-> t.txt, name_lower |-> name_lower,
                            prompt_message_id |-> NewMsgId(t.msg)])]
                    /\ out' = Gateway("process_medicine_name_text", c, "send", "prompt_quantity",
                                      t.chat, NewMsgId(t.msg))
    /\ UNCHANGED <<convs, max_tasks, med_collection, next_oid, today, day_ticks>>

\* a quantity typed in waiting_for_quantity
process_medicine_quantity(c, text, r) ==
    LET quantity_str == Strip(text)
        d == fsm_data[c]
        stored == update_data(d, [quantity |-> quantity_str])
    IN
    /\ fsm_state[c] = WaitingQuantity
    /\ IF quantity_str = NoText
       THEN /\ out' = Gateway("process_medicine_quantity", c, "reply", "quantity_empty", ConvChat(c), 0)
            /\ UNCHANGED <<fsm_state, fsm_data>>
       ELSE /\ fsm_state' = [fsm_state EXCEPT ![c] = WaitingNotes]
            /\ IF r = SendError
               THEN /\ fsm_data' = [fsm_data EXCEPT ![c] = stored]
                    /\ out' = send_message_raises("process_medicine_quantity",
                                  c, IF d.prompt_chat_id # 0
                                        /\ d.prompt_message_id # 0
                                     THEN d.prompt_chat_id ELSE ConvChat(c))
               ELSE IF d.prompt_chat_id # 0 /\ d.prompt_message_id # 0
               THEN   IF safe_edit_message(r, d.prompt_chat_id,
                                           d.prompt_message_id, 0)
                      THEN /\ fsm_data' = [fsm_data EXCEPT ![c] = stored]
                           /\ out' = Rendered("process_medicine_quantity", c,
                                  r, "prompt_notes", d.prompt_chat_id,
                                  d.prompt_message_id, 0)
                      ELSE /\ fsm_data' = [fsm_data EXCEPT ![c] =
                                  update_data(stored, [prompt_message_id |->
                                      NewMsgId(d.prompt_message_id)])]
                           /\ out' = Gateway("process_medicine_quantity", c, "send", "prompt_notes",
                                  d.prompt_chat_id,
                                  NewMsgId(d.prompt_message_id))
               ELSE /\ fsm_data' = [fsm_data EXCEPT ![c] =
                           update_data(stored,
                               [prompt_chat_id |-> ConvChat(c),
                                prompt_message_id |-> NewMsgId(0)])]
                    /\ out' = Gateway("process_medicine_quantity", c, "send", "prompt_notes", ConvChat(c),
                                      NewMsgId(0))
    /\ UNCHANGED <<convs, max_tasks, med_collection, next_oid, tasks, today, day_ticks>>

\* notes typed in waiting_for_notes; the calendar is rendered and bound
process_medicine_notes(c, text, r) ==
    LET notes == Strip(text)
        d == fsm_data[c]
        stored == update_data(d, [notes |-> notes])
        calendar_markup == create_calendar(today[1], today[2])
        shown == [calendar_year |-> today[1], calendar_month |-> today[2]]
    IN
    /\ fsm_state[c] = WaitingNotes
    /\ IF notes = NoText
       THEN /\ out' = Gateway("process_medicine_notes", c, "reply", "notes_empty", ConvChat(c), 0)
            /\ UNCHANGED <<fsm_state, fsm_data>>
       ELSE /\ fsm_state' = [fsm_state EXCEPT ![c] = WaitingExpiry]
            /\ IF r = SendError
               THEN /\ fsm_data' = [fsm_data EXCEPT ![c] = stored]
                    /\ out' = send_message_raises("process_medicine_notes",
                                  c, IF d.prompt_chat_id # 0
                                        /\ d.prompt_message_id # 0
                                     THEN d.prompt_chat_id ELSE ConvChat(c))
               ELSE IF d.prompt_chat_id # 0 /\ d.prompt_message_id # 0
               THEN   IF safe_edit_message(r, d.prompt_chat_id,
                                           d.prompt_message_id, 0)
                      THEN /\ fsm_data' = [fsm_data EXCEPT ![c] =
                                  update_data(update_data(stored, shown),
                                      [calendar_message_id |->
                                           d.prompt_message_id])]
                           /\ out' = Showing(
                                  Rendered("process_medicine_notes", c, r,
                                      "calendar", d.prompt_chat_id,
                                      d.prompt_message_id, 0),
                                  calendar_markup, {})
                      ELSE /\ fsm_data' = [fsm_data EXCEPT ![c] =
                                  update_data(update_data(stored, shown),
                                    [prompt_message_id |->
                                         NewMsgId(d.prompt_message_id),
                                     calendar_message_id |->
                                         NewMsgId(d.prompt_message_id)])]
                           /\ out' = Showing(
                                  Gateway("process_medicine_notes", c, "send",
                                      "calendar", d.prompt_chat_id,
                                      NewMsgId(d.prompt_message_id)),
                                  calendar_markup, {})
               ELSE /\ fsm_data' = [fsm_data EXCEPT ![c] =
                           update_data(update_data(stored, shown),
                               [prompt_chat_id |-> ConvChat(c),
                                prompt_message_id |-> NewMsgId(0),
                                calendar_message_id |-> NewMsgId(0)])]
                    /\ out' = Showing(
                           Gateway("process_medicine_notes", c, "send",
                               "calendar", ConvChat(c), NewMsgId(0)),
                           calendar_markup, {})
    /\ UNCHANGED <<convs, max_tasks, med_collection, next_oid, tasks, today, day_ticks>>

\* the document _save_new_medicine builds from the collected data
MedDoc(d) ==
    [ name |-> d.name, name_lower |-> d.name_lower, quantity |-> d.quantity,
      notes |-> d.notes, exp_date |-> d.exp_date ]
\* all([name, name_lower, quantity, notes, exp_date_iso])
Complete(d) ==
    /\ d.name # NoText /\ d.name_lower # NoText /\ d.quantity # NoText
    /\ d.notes # NoText /\ d.exp_date # NoText

\* a save that keeps the date and never calls insert_one
save_new_medicine_not_started(c, d, chat_id, message_id) ==
    /\ fsm_data' = [fsm_data EXCEPT ![c] = d]
    /\ UNCHANGED <<fsm_state, tasks, out>>
\* _save_new_medicine up to the await of insert_one; d is the data read
save_new_medicine(c, d, chat_id, message_id) ==
    IF ~Complete(d)
    THEN /\ fsm_state' = Cleared(fsm_state, c, NoState)
         /\ fsm_data' = Cleared(fsm_data, c, EmptyData)
         /\ out' = IF chat_id # 0 /\ message_id # 0
                   THEN Gateway("_save_new_medicine", c, "edit", "incomplete", chat_id, message_id)
                   ELSE out
         /\ UNCHANGED tasks
    ELSE /\ CanSpawn
         /\ fsm_data' = [fsm_data EXCEPT ![c] = d]
         /\ tasks' = Spawned([NoTask EXCEPT
                !.conv = c, !.h = "save_new", !.pc = "insert_one",
                !.chat = chat_id, !.msg = message_id, !.doc = MedDoc(d)])
         /\ UNCHANGED <<fsm_state, out>>

\* a date typed in waiting_for_exp_date
process_medicine_exp_date_text(c, text) ==
    LET exp_date_str == Strip(text)
        d == fsm_data[c]
        exp_date_obj == strptime(exp_date_str)
    IN
    /\ fsm_state[c] = WaitingExpiry
    /\ IF exp_date_obj = NoDate
       THEN /\ out' = Gateway("process_medicine_exp_date_text", c, "reply", "date_format", ConvChat(c), 0)
            /\ UNCHANGED <<fsm_state, fsm_data, tasks>>
       ELSE IF DateLT(exp_date_obj, today)
       THEN /\ out' = Gateway("process_medicine_exp_date_text", c, "reply", "date_past", ConvChat(c), 0)
            /\ UNCHANGED <<fsm_state, fsm_data, tasks>>
       ELSE save_new_medicine(c,
                update_data(d, [exp_date |-> isoformat(exp_date_obj)]),
                d.prompt_chat_id, d.calendar_message_id)
    /\ UNCHANGED <<convs, max_tasks, med_collection, next_oid, today, day_ticks>>

\* insert_one has answered: the document is in the collection, or the
\* unique index refused it; the context is cleared and the result rendered
insert_one(t) ==
    LET c == t.conv
        user_id == ConvUser(c)
    IN
    /\ t \in tasks /\ t.h = "save_new" /\ t.pc = "insert_one"
    /\ tasks' = Finished(t)
    /\ fsm_state' = Cleared(fsm_state, c, NoState)
    /\ fsm_data' = Cleared(fsm_data, c, EmptyData)
    /\ IF DuplicateKey(user_id, t.doc.name_lower, 0)
       THEN /\ out' = IF t.chat # 0 /\ t.msg # 0
                      THEN Gateway("_save_new_medicine", c, "edit", "duplicate_error", t.chat, t.msg)
                      ELSE out
            /\ UNCHANGED <<med_collection, next_oid>>
       ELSE /\ next_oid <= MaxOid
            /\ med_collection' = med_collection \cup
                   { [ _id |-> next_oid, added_by |-> user_id,
                       name |-> t.doc.name, name_lower |-> t.doc.name_lower,
                       quantity |-> t.doc.quantity, notes |-> t.doc.notes,
                       exp_date |-> t.doc.exp_date ] }
            /\ next_oid' = next_oid + 1
            /\ out' = IF t.chat # 0 /\ t.msg # 0
                      THEN show_user_medicine_list("_save_new_medicine", c,
                               "list", med_collection', t.chat, t.msg, 1)
                      ELSE out
    /\ UNCHANGED <<convs, max_tasks, today, day_ticks>>

\* ------------------------------------------------------------------------
\* The edit flow
\* ------------------------------------------------------------------------
\* the edit button of field on the detail view of med_id, up to the await
\* of find_one; the view is the ordinary message m, or an inline message
\* when m is 0
edit_medicine_field_start(c, med_id, field, m) ==
    /\ fsm_state[c] = NoState
    /\ m = 0 => ConvChat(c) = ConvUser(c)
    /\ CanSpawn
    /\ tasks' = Spawned([NoTask EXCEPT
           !.conv = c, !.h = "edit_start", !.pc = "find_one",
           !.med = med_id, !.field = field,
           !.chat = IF m = 0 THEN 0 ELSE ConvChat(c), !.msg = m,
           !.inline = IF m = 0 THEN InlineToken ELSE 0])
    /\ UNCHANGED <<convs, max_tasks, med_collection, next_oid, fsm_state, fsm_data,
                   today, day_ticks, out>>

\* find_one has answered: the prompt is rendered, the state set and the
\* identity bound
edit_start_found(t, r) ==
    LET c == t.conv
        medicine == find_by_id(t.med, ConvUser(c))
    IN
    /\ t \in tasks /\ t.h = "edit_start" /\ t.pc = "find_one"
    /\ tasks' = Finished(t)
    /\ IF medicine = {}
       THEN /\ out' = Gateway("edit_medicine_field_start", c, "alert", "not_found", t.chat, t.msg)
            /\ UNCHANGED <<fsm_state, fsm_data>>
       ELSE   IF safe_edit_message(r, t.chat, t.msg, t.inline)
              THEN /\ fsm_state' = [fsm_state EXCEPT ![c] = WaitingNewValue]
                   /\ fsm_data' = [fsm_data EXCEPT ![c] = update_data(@,
                          [ med_id |-> t.med,
                            med_name |-> (CHOOSE x \in medicine : TRUE).name,
                            field_to_edit |-> t.field,
                            prompt_chat_id |-> t.chat,
                            prompt_message_id |-> t.msg,
                            inline_message_id |-> t.inline,
                            calendar_message_id |->
                                IF t.msg # 0 THEN t.msg ELSE t.inline,
                            calendar_year |->
                                IF t.field = "exp_date" THEN today[1]
                                ELSE fsm_data[c].calendar_year,
                            calendar_month |->
                                IF t.field = "exp_date" THEN today[2]
                                ELSE fsm_data[c].calendar_month ])]
                   /\ out' = Showing(
                          Rendered("edit_medicine_field_start", c, r,
                                   "prompt_new_value", t.chat, t.msg,
                                   t.inline),
                          IF t.field = "exp_date"
                          THEN create_calendar(today[1], today[2])
                          ELSE << >>, {})
              ELSE /\ out' = Gateway("edit_medicine_field_start", c, "alert", "edit_failed", t.chat, t.msg)
                   /\ UNCHANGED <<fsm_state, fsm_data>>
    /\ UNCHANGED <<convs, max_tasks, med_collection, next_oid, today, day_ticks>>

\* the message id of the ordinary message bound, 0 when the calendar id is
\* an inline token
MessageIdToUse(d) ==
    IF d.calendar_message_id > 0 THEN d.calendar_message_id ELSE 0

\* _save_edited_medicine up to the await of find_one (the current document)
save_edited_medicine(c, field, value, chat_id, message_id, inline_id) ==
    /\ CanSpawn
    /\ tasks' = Spawned([NoTask EXCEPT
           !.conv = c, !.h = "save_edited", !.pc = "find_current",
           !.med = fsm_data[c].med_id, !.field = field, !.txt = value,
           !.chat = chat_id, !.msg = message_id, !.inline = inline_id])

\* a new value typed in waiting_for_new_value, up to the first await of
\* the database
process_new_value_text(c, text) ==
    LET new_value_str == Strip(text)
        d == fsm_data[c]
        field == d.field_to_edit
        message_id_to_restore == IF d.calendar_message_id # 0
                                 THEN d.calendar_message_id
                                 ELSE d.prompt_message_id
        dt == strptime(new_value_str)
        error == CASE field \in {"name", "quantity", "notes"} ->
                          new_value_str = NoText
                   [] field = "exp_date" -> dt = NoDate \/ DateLT(dt, today)
                   [] OTHER -> FALSE
    IN
    /\ fsm_state[c] = WaitingNewValue
    /\ text \in NewValueTexts(field)
    /\ IF \/ d.med_id = 0 \/ d.med_name = NoText \/ field = ""
          \/ ~ \/ d.prompt_chat_id # 0 /\ message_id_to_restore # 0
               \/ d.inline_message_id # 0
       THEN /\ fsm_state' = Cleared(fsm_state, c, NoState)
            /\ fsm_data' = Cleared(fsm_data, c, EmptyData)
            /\ out' = Gateway("process_new_value_text", c, "reply", "state_error", ConvChat(c), 0)
            /\ UNCHANGED tasks
       ELSE IF error
       THEN /\ out' = Gateway("process_new_value_text", c, "reply", "invalid_value", ConvChat(c), 0)
            /\ UNCHANGED <<fsm_state, fsm_data, tasks>>
       ELSE IF field = "name"
       THEN /\ CanSpawn
            /\ tasks' = Spawned([NoTask EXCEPT
                   !.conv = c, !.h = "new_value", !.pc = "find_one",
                   !.med = d.med_id, !.field = field, !.txt = new_value_str,
                   !.chat = d.prompt_chat_id, !.msg = message_id_to_restore,
                   !.inline = d.inline_message_id])
            /\ UNCHANGED <<fsm_state, fsm_data, out>>
       ELSE /\ save_edited_medicine(c, field,
                   IF field = "exp_date" THEN isoformat(dt) ELSE new_value_str,
                   d.prompt_chat_id, message_id_to_restore,
                   d.inline_message_id)
            /\ UNCHANGED <<fsm_state, fsm_data, out>>
    /\ UNCHANGED <<convs, max_tasks, med_collection, next_oid, today, day_ticks>>

\* find_one (another document of the user with the new name) has answered
new_value_found(t) ==
    LET c == t.conv IN
    /\ t \in tasks /\ t.h = "new_value" /\ t.pc = "find_one"
    /\ IF DuplicateKey(ConvUser(c), Lower(t.txt), t.med)
       THEN /\ tasks' = Finished(t)
            /\ out' = Gateway("process_new_value_text", c, "reply", "name_duplicate", ConvChat(c), 0)
       ELSE /\ tasks' = Moved(t, [t EXCEPT !.h = "save_edited",
                                           !.pc = "find_current"])
            /\ UNCHANGED out
    /\ UNCHANGED <<convs, max_tasks, med_collection, next_oid, fsm_state, fsm_data,
                   today, day_ticks>>

\* find_one (the current document) has answered; current_med.get raises
\* AttributeError when there is no document, and the handler ends there
save_edited_find_current(t) ==
    /\ t \in tasks /\ t.h = "save_edited" /\ t.pc = "find_current"
    /\ IF find_by_id(t.med, ConvUser(t.conv)) = {}
       THEN /\ tasks' = Finished(t)
            /\ out' = Gateway("_save_edited_medicine", t.conv, "raise", "AttributeError", t.chat, t.msg)
       ELSE /\ tasks' = Moved(t, [t EXCEPT !.pc = "update_one"])
            /\ UNCHANGED out
    /\ UNCHANGED <<convs, max_tasks, med_collection, next_oid, fsm_state, fsm_data,
                   today, day_ticks>>

\* a $set that also empties the notes of the document
AfterSetDropsNotes(m, field, value) ==
    IF field = "name"
    THEN [m EXCEPT !.name = value, !.name_lower = Lower(value),
                   !.notes = NoText]
    ELSE [[m EXCEPT ![field] = value] EXCEPT !.notes = NoText]
\* a $set of the name that leaves name_lower as it was
AfterSetKeepsKey(m, field, value) == [m EXCEPT ![field] = value]
\* the document after $set of update_data_dict
AfterSet(m, field, value) ==
    IF field = "name"
    THEN [m EXCEPT !.name = value, !.name_lower = Lower(value)]
    ELSE [m EXCEPT ![field] = value]

\* where view_medicine_details and the other renderings go
RenderAt(t) == IF t.inline # 0 THEN t.inline ELSE t.msg

\* an update_one that inserts the document when none matches (upsert)
update_one_upsert(t) ==
    LET c == t.conv
        matched == find_by_id(t.med, ConvUser(c))
        blank == [ _id |-> t.med, added_by |-> ConvUser(c), name |-> NoText,
                   name_lower |-> NoText, quantity |-> NoText,
                   notes |-> NoText, exp_date |-> NoText ]
    IN
    /\ t \in tasks /\ t.h = "save_edited" /\ t.pc = "update_one"
    /\ tasks' = Finished(t)
    /\ fsm_state' = Cleared(fsm_state, c, NoState)
    /\ fsm_data' = Cleared(fsm_data, c, EmptyData)
    /\ med_collection' =
           (med_collection \ matched) \cup
           {AfterSet(m, t.field, t.txt) :
                m \in IF matched = {} THEN {blank} ELSE matched}
    /\ out' = Gateway("_save_edited_medicine", c, "edit", "detail", t.chat,
                      RenderAt(t))
    /\ UNCHANGED <<convs, max_tasks, next_oid, today, day_ticks>>

\* an update that sets the field in every document of the user (update_many)
update_many(t) ==
    LET c == t.conv
        owned == {m \in med_collection : m.added_by = ConvUser(c)}
    IN
    /\ t \in tasks /\ t.h = "save_edited" /\ t.pc = "update_one"
    /\ tasks' = Finished(t)
    /\ fsm_state' = Cleared(fsm_state, c, NoState)
    /\ fsm_data' = Cleared(fsm_data, c, EmptyData)
    /\ med_collection' =
           (med_collection \ owned) \cup
           {AfterSet(m, t.field, t.txt) : m \in owned}
    /\ out' = Gateway("_save_edited_medicine", c, "edit", "detail", t.chat,
                      RenderAt(t))
    /\ UNCHANGED <<convs, max_tasks, next_oid, today, day_ticks>>

\* update_one has answered; DuplicateKeyError leaves the handler, otherwise
\* the context is cleared and the outcome rendered
update_one(t) ==
    LET c == t.conv
        matched == find_by_id(t.med, ConvUser(c))
        can_render == (t.chat # 0 /\ t.msg # 0) \/ t.inline # 0
    IN
    /\ t \in tasks /\ t.h = "save_edited" /\ t.pc = "update_one"
    /\ tasks' = Finished(t)
    /\ IF /\ matched # {} /\ t.field = "name"
          /\ DuplicateKey(ConvUser(c), Lower(t.txt), t.med)
       THEN /\ out' = Gateway("_save_edited_medicine", c, "raise", "DuplicateKeyError", t.chat, t.msg)
            /\ UNCHANGED <<med_collection, fsm_state, fsm_data>>
       ELSE /\ fsm_state' = Cleared(fsm_state, c, NoState)
            /\ fsm_data' = Cleared(fsm_data, c, EmptyData)
            /\ IF matched = {}
               THEN /\ out' = IF t.inline # 0
                              THEN Gateway("_save_edited_medicine", c, "edit", "not_found_then_menu",
                                           t.chat, t.inline)
                              ELSE IF t.chat # 0 /\ t.msg # 0
                              THEN show_user_medicine_list(
                                       "_save_edited_medicine", c,
                                       "not_found_then_list", med_collection,
                                       t.chat, t.msg, 1)
                              ELSE out
                    /\ UNCHANGED med_collection
               ELSE /\ med_collection' =
                          (med_collection \ matched) \cup
                          {AfterSet(m, t.field, t.txt) : m \in matched}
                    /\ out' = IF can_render
                              THEN Showing(Gateway("_save_edited_medicine", c,
                                               "edit", "detail", t.chat,
                                               RenderAt(t)),
                                           <<t.med>>, {})
                              ELSE out
    /\ UNCHANGED <<convs, max_tasks, next_oid, today, day_ticks>>

\* ------------------------------------------------------------------------
\* The calendar
\* ------------------------------------------------------------------------
\* a window of years that lets every year through
year_allowed_always(new_year, today_year) == TRUE
\* the years the calendar may show
year_allowed(new_year, today_year) ==
    today_year - 5 <= new_year /\ new_year <= today_year + 10
\* a navigation button with the callback data action, year and month is
\* pressed on the message m; r is the answer of the gateway to the edit
handle_calendar_change(c, action, year, month, m, r) ==
    LET new_month ==
            CASE action = "prev_month" -> IF month = 1 THEN 12 ELSE month - 1
              [] action = "next_month" -> IF month = 12 THEN 1 ELSE month + 1
              [] OTHER -> month
        new_year ==
            CASE action = "prev_year" -> year - 1
              [] action = "next_year" -> year + 1
              [] action = "prev_month" -> IF month = 1 THEN year - 1 ELSE year
              [] action = "next_month" -> IF month = 12 THEN year + 1 ELSE year
              [] OTHER -> year
        d == fsm_data[c]
        inline_message_id == d.inline_message_id
        chat_id == d.prompt_chat_id
        message_id == d.calendar_message_id
    IN
    /\ IF ~year_allowed(new_year, today[1])
       THEN /\ out' = Gateway("handle_calendar_change", c, "alert",
                              "years_only", ConvChat(c), m)
            /\ UNCHANGED fsm_data
       ELSE IF inline_message_id = 0 /\ ~(chat_id # 0 /\ message_id # 0)
       THEN /\ out' = Gateway("handle_calendar_change", c, "alert",
                              "calendar_error", ConvChat(c), m)
            /\ UNCHANGED fsm_data
       ELSE /\ out' = IF safe_edit_message(r, chat_id, message_id,
                                           inline_message_id)
                      THEN Showing(
                               Rendered("handle_calendar_change", c, r,
                                   "calendar", chat_id, message_id,
                                   inline_message_id),
                               create_calendar(new_year, new_month), {})
                      ELSE Gateway("handle_calendar_change", c, "edit_failed",
                               "calendar", chat_id, message_id)
            /\ fsm_data' = IF fsm_state[c] # NoState
                           THEN [fsm_data EXCEPT ![c] = update_data(@,
                                    [ calendar_year |-> new_year,
                                      calendar_month |-> new_month ])]
                           ELSE fsm_data
    /\ UNCHANGED <<convs, max_tasks, med_collection, next_oid, fsm_state,
                   tasks, today, day_ticks>>

\* a press on a header, weekday or blank cell that ends the flow
handle_calendar_ignore_clears(c, m) ==
    /\ out' = Gateway("handle_calendar_ignore", c, "answer", "", ConvChat(c), m)
    /\ fsm_state' = Cleared(fsm_state, c, NoState)
    /\ fsm_data' = Cleared(fsm_data, c, EmptyData)
    /\ UNCHANGED <<convs, max_tasks, med_collection, next_oid, tasks, today,
                   day_ticks>>
\* a press on a header, weekday or blank cell of the calendar on the
\* message m: the callback is answered
handle_calendar_ignore(c, m) ==
    /\ out' = Gateway("handle_calendar_ignore", c, "answer", "", ConvChat(c), m)
    /\ UNCHANGED <<convs, max_tasks, med_collection, next_oid, fsm_state,
                   fsm_data, tasks, today, day_ticks>>

\* a date that is the day before the one of the button
date_a_day_early(year, month, day) ==
    IF day > 1 THEN <<year, month, day - 1>>
    ELSE IF month > 1
    THEN <<year, month - 1, DaysInMonth(year, month - 1)>>
    ELSE <<year - 1, 12, 31>>
\* datetime.date(year, month, day)
date(year, month, day) == <<year, month, day>>
\* a day button that saves the date whatever field is edited
handle_date_select_any_field(c, day, m) ==
    LET selected_date == date(day[1], day[2], day[3])
        d == update_data(fsm_data[c],
                         [exp_date |-> isoformat(selected_date)])
        chat_id_to_use == d.prompt_chat_id
        message_id_to_use == MessageIdToUse(d)
        inline_id_to_use == d.inline_message_id
        menu_out ==
            IF inline_id_to_use # 0
            THEN Gateway("handle_date_select", c, "edit", "main_menu", 0, inline_id_to_use)
            ELSE IF chat_id_to_use # 0 /\ message_id_to_use # 0
            THEN Gateway("handle_date_select", c, "edit", "main_menu", chat_id_to_use,
                         message_id_to_use)
            ELSE out
    IN
    /\ IF DateLT(selected_date, today)
       THEN /\ out' = Gateway("handle_date_select", c, "alert", "date_past", ConvChat(c), m)
            /\ UNCHANGED <<fsm_state, fsm_data, tasks>>
       ELSE IF fsm_state[c] = WaitingExpiry
       THEN IF chat_id_to_use # 0 /\ message_id_to_use # 0
            THEN save_new_medicine(c, d, chat_id_to_use, message_id_to_use)
            ELSE /\ fsm_state' = Cleared(fsm_state, c, NoState)
                 /\ fsm_data' = Cleared(fsm_data, c, EmptyData)
                 /\ UNCHANGED <<tasks, out>>
       ELSE IF fsm_state[c] = WaitingNewValue /\ d.med_id # 0
       THEN /\ fsm_data' = [fsm_data EXCEPT ![c] = d]
            /\ save_edited_medicine(c, "exp_date", isoformat(selected_date),
                   chat_id_to_use, message_id_to_use, inline_id_to_use)
            /\ UNCHANGED <<fsm_state, out>>
       ELSE /\ fsm_state' = Cleared(fsm_state, c, NoState)
            /\ fsm_data' = Cleared(fsm_data, c, EmptyData)
            /\ out' = IF fsm_state[c] = WaitingNewValue
                      THEN IF d.med_id = 0 THEN out ELSE menu_out
                      ELSE IF inline_id_to_use # 0
                      THEN Gateway("handle_date_select", c, "edit", "main_menu", 0, inline_id_to_use)
                      ELSE Gateway("handle_date_select", c, "edit", "main_menu", ConvChat(c), m)
            /\ UNCHANGED tasks
    /\ UNCHANGED <<convs, max_tasks, med_collection, next_oid, today, day_ticks>>
\* a day button is pressed on the message m; day is the year, month and
\* day of its callback data
handle_date_select(c, day, m) ==
    LET selected_date == date(day[1], day[2], day[3])
        d == update_data(fsm_data[c],
                         [exp_date |-> isoformat(selected_date)])
        chat_id_to_use == d.prompt_chat_id
        message_id_to_use == MessageIdToUse(d)
        inline_id_to_use == d.inline_message_id
        menu_out ==
            IF inline_id_to_use # 0
            THEN Gateway("handle_date_select", c, "edit", "main_menu", 0, inline_id_to_use)
            ELSE IF chat_id_to_use # 0 /\ message_id_to_use # 0
            THEN Gateway("handle_date_select", c, "edit", "main_menu", chat_id_to_use,
                         message_id_to_use)
            ELSE out
    IN
    /\ IF DateLT(selected_date, today)
       THEN /\ out' = Gateway("handle_date_select", c, "alert", "date_past", ConvChat(c), m)
            /\ UNCHANGED <<fsm_state, fsm_data, tasks>>
       ELSE IF fsm_state[c] = WaitingExpiry
       THEN IF chat_id_to_use # 0 /\ message_id_to_use # 0
            THEN save_new_medicine(c, d, chat_id_to_use, message_id_to_use)
            ELSE /\ fsm_state' = Cleared(fsm_state, c, NoState)
                 /\ fsm_data' = Cleared(fsm_data, c, EmptyData)
                 /\ UNCHANGED <<tasks, out>>
       ELSE IF fsm_state[c] = WaitingNewValue /\ d.med_id # 0
                /\ d.field_to_edit = "exp_date"
       THEN /\ fsm_data' = [fsm_data EXCEPT ![c] = d]
            /\ save_edited_medicine(c, "exp_date", isoformat(selected_date),
                   chat_id_to_use, message_id_to_use, inline_id_to_use)
            /\ UNCHANGED <<fsm_state, out>>
       ELSE /\ fsm_state' = Cleared(fsm_state, c, NoState)
            /\ fsm_data' = Cleared(fsm_data, c, EmptyData)
            /\ out' = IF fsm_state[c] = WaitingNewValue
                      THEN IF d.med_id = 0 THEN out ELSE menu_out
                      ELSE IF inline_id_to_use # 0
                      THEN Gateway("handle_date_select", c, "edit", "main_menu", 0, inline_id_to_use)
                      ELSE Gateway("handle_date_select", c, "edit", "main_menu", ConvChat(c), m)
            /\ UNCHANGED tasks
    /\ UNCHANGED <<convs, max_tasks, med_collection, next_oid, today, day_ticks>>

\* ------------------------------------------------------------------------
\* Deleting
\* ------------------------------------------------------------------------
\* the confirm button of the deletion of med_id on the ordinary message m
delete_medicine_confirm(c, med_id, m) ==
    LET found == find_by_id(med_id, ConvUser(c)) IN
    /\ fsm_state[c] = NoState
    /\ med_collection' = med_collection \ found
    /\ out' = IF found # {}
              THEN show_user_medicine_list("delete_medicine_confirm", c,
                       "list", med_collection', ConvChat(c), m, 1)
              ELSE Gateway("delete_medicine_confirm", c, "alert", "not_found", ConvChat(c), m)
    /\ UNCHANGED <<convs, max_tasks, next_oid, fsm_state, fsm_data, tasks, today,
                   day_ticks>>

\* ------------------------------------------------------------------------
\* Viewing, listing and searching
\* ------------------------------------------------------------------------
\* view_medicine_details: what is rendered for med_id on the message, or on
\* the inline message when inline_id is not 0
view_medicine_details(by, c, med_id, chat_id, message_id, inline_id) ==
    LET medicine == find_by_id(med_id, ConvUser(c)) IN
    IF ~(chat_id # 0 /\ message_id # 0) /\ inline_id = 0 THEN out
    ELSE IF medicine = {}
    THEN IF inline_id # 0
         THEN Gateway(by, c, "edit", "not_found_then_menu", 0, inline_id)
         ELSE show_user_medicine_list(by, c, "not_found_then_list",
                  med_collection, chat_id, message_id, 1)
    ELSE Showing(Gateway(by, c, "edit", "detail", chat_id,
                         IF inline_id # 0 THEN inline_id ELSE message_id),
                 <<med_id>>, {})

\* the view button of med_id on the ordinary message m, or on an inline
\* message when m is 0
view_medicine_callback(c, med_id, m) ==
    /\ fsm_state[c] = NoState
    /\ m = 0 => ConvChat(c) = ConvUser(c)
    /\ out' = view_medicine_details("view_medicine_callback", c, med_id,
                   IF m = 0 THEN 0 ELSE ConvChat(c), m,
                   IF m = 0 THEN InlineToken ELSE 0)
    /\ UNCHANGED <<convs, max_tasks, med_collection, next_oid, fsm_state,
                   fsm_data, tasks, today, day_ticks>>

\* a delete button that removes the medicine without the confirmation
delete_medicine_request_at_once(c, med_id, m) ==
    /\ fsm_state[c] = NoState
    /\ m = 0 => ConvChat(c) = ConvUser(c)
    /\ med_collection' = med_collection \ find_by_id(med_id, ConvUser(c))
    /\ out' = Gateway("delete_medicine_request", c, "edit", "confirm_delete",
                      IF m = 0 THEN 0 ELSE ConvChat(c),
                      IF m = 0 THEN InlineToken ELSE m)
    /\ UNCHANGED <<convs, max_tasks, next_oid, fsm_state, fsm_data, tasks,
                   today, day_ticks>>

\* the delete button of med_id: the confirmation is asked for
delete_medicine_request(c, med_id, m) ==
    /\ fsm_state[c] = NoState
    /\ m = 0 => ConvChat(c) = ConvUser(c)
    /\ out' = IF find_by_id(med_id, ConvUser(c)) = {}
              THEN Gateway("delete_medicine_request", c, "alert", "not_found",
                           ConvChat(c), m)
              ELSE Showing(Gateway("delete_medicine_request", c, "edit",
                                   "confirm_delete",
                                   IF m = 0 THEN 0 ELSE ConvChat(c),
                                   IF m = 0 THEN InlineToken ELSE m),
                           <<med_id>>, {})
    /\ UNCHANGED <<convs, max_tasks, med_collection, next_oid, fsm_state,
                   fsm_data, tasks, today, day_ticks>>

\* /list: get_medicine_list_keyboard is called with a keyword it does not
\* take, and the TypeError leaves the handler
list_medicines_command(c) ==
    /\ fsm_state[c] = NoState
    /\ out' = Gateway("list_medicines_command", c, "raise", "TypeError",
                      ConvChat(c), 0)
    /\ UNCHANGED <<convs, max_tasks, med_collection, next_oid, fsm_state,
                   fsm_data, tasks, today, day_ticks>>

\* the list button on the ordinary message m; page is callback_data.page or 1
list_medicines_callback(c, page, m) ==
    /\ fsm_state[c] = NoState
    /\ out' = show_user_medicine_list("list_medicines_callback", c, "list",
                   med_collection, ConvChat(c), m, page)
    /\ UNCHANGED <<convs, max_tasks, med_collection, next_oid, fsm_state,
                   fsm_data, tasks, today, day_ticks>>

\* a paging button of the list on the ordinary message m
handle_page_callback(c, page, m) ==
    /\ fsm_state[c] = NoState
    /\ out' = show_user_medicine_list("handle_page_callback", c, "list",
                   med_collection, ConvChat(c), m, page)
    /\ UNCHANGED <<convs, max_tasks, med_collection, next_oid, fsm_state,
                   fsm_data, tasks, today, day_ticks>>

\* The letters of the model: Latin a, b, h, n, p, s, t, x and A, B, and the
\* Cyrillic letters written with the prefix ru_ (ru_ts is the letter tse,
\* ru_sh the letter sha, ru_h the letter ha).
\* the dictionary ru_en; a character that is no key stays
ru_en(ch) ==
    CASE ch = "ru_a" -> <<"a">> [] ch = "ru_b" -> <<"b">>
      [] ch = "ru_n" -> <<"n">> [] ch = "ru_p" -> <<"p">>
      [] ch = "ru_s" -> <<"s">> [] ch = "ru_t" -> <<"t">>
      [] ch = "ru_h" -> <<"h">> [] ch = "ru_ts" -> <<"t", "s">>
      [] ch = "ru_sh" -> <<"s", "h">>
      [] ch = "ru_A" -> <<"A">> [] ch = "ru_B" -> <<"B">>
      [] OTHER -> <<ch>>
\* the single letters of the dictionary en_ru; x is no key
en_ru(ch) ==
    CASE ch = "a" -> <<"ru_a">> [] ch = "b" -> <<"ru_b">>
      [] ch = "n" -> <<"ru_n">> [] ch = "p" -> <<"ru_p">>
      [] ch = "s" -> <<"ru_s">> [] ch = "t" -> <<"ru_t">>
      [] ch = "h" -> <<"ru_h">>
      [] ch = "A" -> <<"ru_A">> [] ch = "B" -> <<"ru_B">>
      [] OTHER -> <<ch>>
\* str.replace(old, new), new one letter
RECURSIVE replace(_, _, _)
replace(text, old, new) ==
    IF Len(text) < Len(old) THEN text
    ELSE IF SubSeq(text, 1, Len(old)) = old
    THEN <<new>> \o replace(SubSeq(text, Len(old) + 1, Len(text)), old, new)
    ELSE <<Head(text)>> \o replace(Tail(text), old, new)
\* the loop result += dic.get(char, char), dic being en_ru or ru_en
RECURSIVE dic_get_each(_, _)
dic_get_each(text, to_ru) ==
    IF text = << >> THEN << >>
    ELSE (IF to_ru THEN en_ru(Head(text)) ELSE ru_en(Head(text)))
         \o dic_get_each(Tail(text), to_ru)
\* a search that makes no transliteration pass
transliterate_none(text) == text
\* transliterate
transliterate(text) ==
    LET is_ru == \E i \in 1..Len(text) : ru_en(text[i]) # <<text[i]>>
        is_en == \E i \in 1..Len(text) : en_ru(text[i]) # <<text[i]>>
    IN  IF is_ru /\ ~is_en THEN dic_get_each(text, FALSE)
        ELSE IF is_en /\ ~is_ru
        THEN dic_get_each(
                 replace(replace(text, <<"t", "s">>, "ru_ts"),
                         <<"s", "h">>, "ru_sh"), TRUE)
        ELSE text
\* the regular expression of the escaped pattern finds it in the text
Contains(text, pattern) ==
    \E i \in 0..(Len(text) - Len(pattern)) :
        SubSeq(text, i + 1, i + Len(pattern)) = pattern
INLINE_LIMIT == 20
Take(seq, n) == IF Len(seq) <= n THEN seq ELSE SubSeq(seq, 1, n)
\* str() of a natural number
RECURSIVE str(_)
str(n) ==
    IF n < 10 THEN <<DigitChars[n + 1]>>
    ELSE str(n \div 10) \o <<DigitChars[(n % 10) + 1]>>
\* a cursor that skips nothing
skip_none(seq, n) == seq
\* cursor.skip(n)
skip(seq, n) == IF n >= Len(seq) THEN << >> ELSE SubSeq(seq, n + 1, Len(seq))
\* an inline query typed in any chat by the user of c; inline_offset is the
\* offset the client sends: empty, or the next_offset of an earlier answer
inline_search_handler(c, text, inline_offset) ==
    LET query == Strip(text)
        offset == IF inline_offset # NoText THEN NumVal(inline_offset) ELSE 0
        query_lower == Lower(query)
        translit_query_lower == transliterate(query_lower)
        found == {m \in med_collection :
                     /\ m.added_by = ConvUser(c)
                     /\ \/ Contains(m.name_lower, query_lower)
                        \/ /\ translit_query_lower # query_lower
                           /\ Contains(m.name_lower, translit_query_lower)}
        found_medicines ==
            Take(skip(SortedByNameLower(found), offset), INLINE_LIMIT)
        next_offset == IF Len(found_medicines) = INLINE_LIMIT
                       THEN str(offset + INLINE_LIMIT) ELSE NoText
    IN
    /\ ConvChat(c) = ConvUser(c)
    /\ out' = IF query = NoText
              THEN Gateway("inline_search_handler", c, "answer", "switch_pm",
                           0, 0)
              ELSE [Showing(Gateway("inline_search_handler", c, "answer",
                                    "results", 0, 0),
                            [i \in 1..Len(found_medicines) |->
                                 found_medicines[i]._id], {})
                    EXCEPT !.next_offset = next_offset,
                           !.inline_query = text,
                           !.inline_offset = inline_offset]
    /\ UNCHANGED <<convs, max_tasks, med_collection, next_oid, fsm_state,
                   fsm_data, tasks, today, day_ticks>>

\* ------------------------------------------------------------------------
\* The barcode of a photo in waiting_for_name
\* ------------------------------------------------------------------------
\* download_photo: the content of the photo, or None
download_photo(photo) == IF photo.download THEN {photo} ELSE {}
\* decode_barcode: the barcode on the photo, or None
decode_barcode(photo) == IF photo.barcode THEN {photo} ELSE {}
\* a fetch that returns the page whatever the request ends with
fetch_barcode_info_unguarded(photo) == {photo.rows}
\* fetch_barcode_info: the page of the barcode, or None after a timeout or
\* a client error; a page is the names in the rows of its table, in order
fetch_barcode_info(photo) == IF photo.fetch = "ok" THEN {photo.rows} ELSE {}
\* sorted() of a set of strings
RECURSIVE sorted(_)
sorted(S) ==
    IF S = {} THEN << >>
    ELSE LET m == CHOOSE x \in S : \A y \in S \ {x} : StrLT(x, y)
         IN  <<m>> \o sorted(S \ {m})
\* the names of a page in the order of their first appearance
RECURSIVE parse_barcode_html_in_page_order(_)
parse_barcode_html_in_page_order(rows) ==
    IF rows = << >> THEN << >>
    ELSE LET rest == parse_barcode_html_in_page_order(
                         SelectSeq(Tail(rows), LAMBDA n : n # Head(rows)))
         IN  IF Head(rows) = NoText THEN rest ELSE <<Head(rows)>> \o rest
\* parse_barcode_html: the non-empty names of the rows, each once, sorted
parse_barcode_html(rows) ==
    sorted({rows[i] : i \in 1..Len(rows)} \ {NoText})
\* min(parsed_names, key=len): the first of the names of the least length
min_key_len(parsed_names) ==
    parsed_names[CHOOSE i \in 1..Len(parsed_names) :
        /\ \A j \in 1..Len(parsed_names) :
               Len(parsed_names[i]) <= Len(parsed_names[j])
        /\ \A j \in 1..(i - 1) :
               Len(parsed_names[j]) > Len(parsed_names[i])]

\* a photo sent in waiting_for_name, up to the await of find_one
process_medicine_name_photo(c, photo) ==
    LET d == fsm_data[c]
        html_content == fetch_barcode_info(photo)
        parsed_names == parse_barcode_html(CHOOSE page \in html_content : TRUE)
        shortest_name == min_key_len(parsed_names)
        failed(view) ==
            /\ out' = Gateway("process_medicine_name_photo", c, "edit", view,
                              d.prompt_chat_id, d.prompt_message_id)
            /\ UNCHANGED <<fsm_state, fsm_data, tasks>>
    IN
    /\ fsm_state[c] = WaitingName
    /\ IF d.prompt_chat_id = 0 \/ d.prompt_message_id = 0
       THEN /\ out' = Gateway("process_medicine_name_photo", c, "reply",
                              "state_error", ConvChat(c), 0)
            /\ fsm_state' = Cleared(fsm_state, c, NoState)
            /\ fsm_data' = Cleared(fsm_data, c, EmptyData)
            /\ UNCHANGED tasks
       ELSE IF download_photo(photo) = {}
       THEN failed("download_failed_enter_name")
       ELSE IF decode_barcode(photo) = {}
       THEN failed("no_barcode_enter_name")
       ELSE IF html_content = {}
       THEN failed("no_info_enter_name")
       ELSE IF parsed_names = << >>
       THEN failed("no_names_enter_name")
       ELSE /\ CanSpawn
            /\ tasks' = Spawned([NoTask EXCEPT
                   !.conv = c, !.h = "name_photo", !.pc = "find_one",
                   !.txt = shortest_name, !.chat = d.prompt_chat_id,
                   !.msg = d.prompt_message_id])
            /\ out' = Gateway("process_medicine_name_photo", c, "edit",
                              "barcode_lookup", d.prompt_chat_id,
                              d.prompt_message_id)
            /\ UNCHANGED <<fsm_state, fsm_data>>
    /\ UNCHANGED <<convs, max_tasks, med_collection, next_oid, today, day_ticks>>

\* find_one has answered: the offer to update the medicine the user has, or
\* the name is stored, the state set and the quantity prompt rendered
name_photo_found(t, r) ==
    LET c == t.conv
        name_lower == Lower(t.txt)
        existing_med_user == find_by_name(name_lower, ConvUser(c))
    IN
    /\ t \in tasks /\ t.h = "name_photo" /\ t.pc = "find_one"
    /\ tasks' = Finished(t)
    /\ IF existing_med_user # {}
       THEN /\ out' = Showing(Gateway("process_medicine_name_photo", c, "edit",
                                      "barcode_duplicate", t.chat, t.msg),
                              <<(CHOOSE m \in existing_med_user : TRUE)._id>>,
                              {})
            /\ fsm_data' = [fsm_data EXCEPT ![c] = update_data(@,
                   [prompt_chat_id |-> t.chat, prompt_message_id |-> t.msg])]
            /\ UNCHANGED fsm_state
       ELSE /\ fsm_state' = [fsm_state EXCEPT ![c] = WaitingQuantity]
            /\ IF safe_edit_message(r, t.chat, t.msg, 0)
               THEN /\ fsm_data' = [fsm_data EXCEPT ![c] = update_data(@,
                           [name |-> t.txt, name_lower |-> name_lower,
                            prompt_chat_id |-> t.chat,
                            prompt_message_id |-> t.msg])]
                    /\ out' = Rendered("process_medicine_name_photo", c, r,
                                       "prompt_quantity", t.chat, t.msg, 0)
               ELSE /\ fsm_data' = [fsm_data EXCEPT ![c] = update_data(@,
                           [name |-> t.txt, name_lower |-> name_lower,
                            prompt_chat_id |-> t.chat,
                            prompt_message_id |-> NewMsgId(t.msg)])]
                    /\ out' = Gateway("process_medicine_name_photo", c, "send",
                                      "prompt_quantity", t.chat,
                                      NewMsgId(t.msg))
    /\ UNCHANGED <<convs, max_tasks, med_collection, next_oid, today, day_ticks>>

\* an update button that shows the detail view and keeps the add flow
handle_confirm_barcode_update_keeps_flow(c, med_name, m) ==
    LET existing_med == find_by_name(Lower(med_name), ConvUser(c)) IN
    /\ fsm_state[c] = WaitingName
    /\ out' = IF existing_med = {}
              THEN Gateway("handle_confirm_barcode_update", c, "edit",
                           "main_menu", ConvChat(c), m)
              ELSE view_medicine_details("handle_confirm_barcode_update", c,
                       (CHOOSE x \in existing_med : TRUE)._id,
                       ConvChat(c), m, 0)
    /\ UNCHANGED <<convs, max_tasks, med_collection, next_oid, fsm_state,
                   fsm_data, tasks, today, day_ticks>>

\* the update button of the offer, on the ordinary message m: the medicine
\* with the name of the button is looked up and its detail view rendered
handle_confirm_barcode_update(c, med_name, m) ==
    LET existing_med == find_by_name(Lower(med_name), ConvUser(c)) IN
    /\ fsm_state[c] = WaitingName
    /\ fsm_state' = Cleared(fsm_state, c, NoState)
    /\ fsm_data' = Cleared(fsm_data, c, EmptyData)
    /\ out' = IF existing_med = {}
              THEN Gateway("handle_confirm_barcode_update", c, "edit",
                           "main_menu", ConvChat(c), m)
              ELSE view_medicine_details("handle_confirm_barcode_update", c,
                       (CHOOSE x \in existing_med : TRUE)._id,
                       ConvChat(c), m, 0)
    /\ UNCHANGED <<convs, max_tasks, med_collection, next_oid, tasks, today,
                   day_ticks>>

\* the other button of the offer: the name prompt is rendered again
handle_add_different_barcode(c, m) ==
    LET d == fsm_data[c] IN
    /\ fsm_state[c] = WaitingName
    /\ IF d.prompt_chat_id = 0 \/ d.prompt_message_id = 0
       THEN /\ fsm_state' = Cleared(fsm_state, c, NoState)
            /\ fsm_data' = Cleared(fsm_data, c, EmptyData)
            /\ out' = Gateway("handle_add_different_barcode", c, "edit",
                              "main_menu", ConvChat(c), m)
       ELSE /\ out' = Gateway("handle_add_different_barcode", c, "edit",
                              "prompt_name", d.prompt_chat_id,
                              d.prompt_message_id)
            /\ UNCHANGED <<fsm_state, fsm_data>>
    /\ UNCHANGED <<convs, max_tasks, med_collection, next_oid, tasks, today,
                   day_ticks>>

\* ------------------------------------------------------------------------
\* The daily reminder
\* ------------------------------------------------------------------------
days_threshold == 30
\* date + timedelta(days=n)
RECURSIVE AddDays(_, _)
AddDays(d, n) == IF n = 0 THEN d ELSE AddDays(NextDay(d), n - 1)
\* (b - a).days
RECURSIVE DaysFromTo(_, _)
DaysFromTo(a, b) ==
    IF a = b THEN 0
    ELSE IF DateLT(a, b) THEN 1 + DaysFromTo(NextDay(a), b)
    ELSE 0 - DaysFromTo(b, a)
\* date.fromisoformat: YYYY-MM-DD only; a ValueError is NoDate
fromisoformat(s) == IF Len(s) = 10 THEN strptime(s) ELSE NoDate
\* cursor.sort("exp_date").to_list(): the strings ascending, documents with
\* the same string in the order of the collection
RECURSIVE SortedByExpDate(_)
SortedByExpDate(S) ==
    IF S = {} THEN << >>
    ELSE LET m == CHOOSE x \in S : \A y \in S \ {x} :
                      \/ StrLT(x.exp_date, y.exp_date)
                      \/ x.exp_date = y.exp_date /\ x._id < y._id
         IN  <<m>> \o SortedByExpDate(S \ {m})
\* med_collection.distinct("added_by"), in ascending order
RECURSIVE distinct_added_by(_)
distinct_added_by(coll) ==
    IF coll = {} THEN << >>
    ELSE LET u == CHOOSE x \in {m.added_by : m \in coll} :
                      \A m \in coll : x <= m.added_by
         IN  <<u>> \o distinct_added_by({m \in coll : m.added_by # u})
\* a query for the expiring that has no upper limit
find_soon_no_limit(coll, user_id, T) ==
    SortedByExpDate({m \in coll :
        m.added_by = user_id /\ ~StrLT(m.exp_date, isoformat(T))})
\* query_soon and query_expired of the run of the day T, on strings
find_soon(coll, user_id, T) ==
    SortedByExpDate({m \in coll :
        /\ m.added_by = user_id
        /\ ~StrLT(m.exp_date, isoformat(T))
        /\ ~StrLT(isoformat(AddDays(T, days_threshold)), m.exp_date)})
\* a query for the expired that takes the day T itself as expired
find_expired_today_too(coll, user_id, T) ==
    SortedByExpDate({m \in coll :
        m.added_by = user_id /\ ~StrLT(isoformat(T), m.exp_date)})
find_expired(coll, user_id, T) ==
    SortedByExpDate({m \in coll :
        m.added_by = user_id /\ StrLT(m.exp_date, isoformat(T))})
\* the lines of the two sections; days_left is -1 where the text has none
SoonLine(med, T) ==
    LET exp_date_obj == fromisoformat(med.exp_date)
        days_left == IF exp_date_obj = NoDate THEN -1
                     ELSE DaysFromTo(T, exp_date_obj)
    IN  [ _id |-> med._id, name |-> med.name, exp_date |-> med.exp_date,
          days_left |-> IF days_left >= 0 THEN days_left ELSE -1 ]
ExpiredLine(med) ==
    [ _id |-> med._id, name |-> med.name, exp_date |-> med.exp_date,
      days_left |-> -1 ]

SweepTasks == {t \in tasks : t.h = "daily_reminder"}
\* the cron job fires: today is read once
daily_reminder ==
    /\ \/ /\ SweepTasks = {} /\ CanSpawn
          /\ tasks' = Spawned([NoTask EXCEPT
                 !.h = "daily_reminder", !.pc = "distinct",
                 !.sweep = [NoSweep EXCEPT !.today = today]])
       \/ \E t \in SweepTasks :
              /\ t.pc = "idle"
              /\ tasks' = Moved(t, [t EXCEPT
                     !.pc = "distinct",
                     !.sweep = [NoSweep EXCEPT
                         !.today = today,
                         !.last = << [ today |-> t.sweep.today,
                                       store |-> t.sweep.store,
                                       sent |-> t.sweep.sent ] >>]])
    /\ UNCHANGED <<convs, max_tasks, med_collection, next_oid, fsm_state,
                   fsm_data, today, day_ticks, out>>

\* distinct("added_by") returns
sweep_distinct(t) ==
    LET distinct_user_ids == distinct_added_by(med_collection)
    IN
    /\ t \in tasks /\ t.h = "daily_reminder" /\ t.pc = "distinct"
    /\ tasks' = Moved(t, [t EXCEPT
           !.pc = IF distinct_user_ids = << >> THEN "idle" ELSE "find_soon",
           !.sweep.users = distinct_user_ids,
           !.sweep.store = @ \cup {med_collection}])
    /\ UNCHANGED <<convs, max_tasks, med_collection, next_oid, fsm_state,
                   fsm_data, today, day_ticks, out>>

\* find(query_soon) of the next user returns
sweep_find_soon(t) ==
    /\ t \in tasks /\ t.h = "daily_reminder" /\ t.pc = "find_soon"
    /\ tasks' = Moved(t, [t EXCEPT
           !.pc = "find_expired",
           !.sweep.soon = find_soon(med_collection, Head(t.sweep.users),
                                    t.sweep.today),
           !.sweep.store = @ \cup {med_collection}])
    /\ UNCHANGED <<convs, max_tasks, med_collection, next_oid, fsm_state,
                   fsm_data, today, day_ticks, out>>

\* a sweep that removes the expired documents it reports
sweep_find_expired_purging(t, r) ==
    LET user_id == Head(t.sweep.users)
        expired == find_expired(med_collection, user_id, t.sweep.today)
        digest ==
            [ soon |-> [i \in 1..Len(t.sweep.soon) |->
                           SoonLine(t.sweep.soon[i], t.sweep.today)],
              expired |-> [i \in 1..Len(expired) |->
                              ExpiredLine(expired[i])] ]
        rest == Tail(t.sweep.users)
        sends == digest # NoDigest
    IN
    /\ t \in tasks /\ t.h = "daily_reminder" /\ t.pc = "find_expired"
    /\ sends \/ r = "ok"
    /\ tasks' = Moved(t, [t EXCEPT
           !.pc = IF rest = << >> THEN "idle" ELSE "find_soon",
           !.sweep.users = rest,
           !.sweep.soon = << >>,
           !.sweep.store = @ \cup {med_collection},
           !.sweep.sent = IF sends
                          THEN @ \cup {[user |-> user_id, digest |-> digest]}
                          ELSE @])
    /\ out' = IF ~sends THEN out
              ELSE IF r = "ok"
              THEN [Gateway("daily_reminder", "", "send", "reminder",
                            user_id, 0) EXCEPT !.digest = digest]
              ELSE Gateway("daily_reminder", "", "send_failed", "reminder",
                           user_id, 0)
    /\ med_collection' = med_collection \ {expired[i] : i \in 1..Len(expired)}
    /\ UNCHANGED <<convs, max_tasks, next_oid, fsm_state, fsm_data, today,
                   day_ticks>>
\* find(query_expired) of the user returns and the reminder is sent; r is
\* the answer of the gateway to send_message
sweep_find_expired(t, r) ==
    LET user_id == Head(t.sweep.users)
        expired == find_expired(med_collection, user_id, t.sweep.today)
        digest ==
            [ soon |-> [i \in 1..Len(t.sweep.soon) |->
                           SoonLine(t.sweep.soon[i], t.sweep.today)],
              expired |-> [i \in 1..Len(expired) |->
                              ExpiredLine(expired[i])] ]
        rest == Tail(t.sweep.users)
        sends == digest # NoDigest
    IN
    /\ t \in tasks /\ t.h = "daily_reminder" /\ t.pc = "find_expired"
    /\ sends \/ r = "ok"
    /\ tasks' = Moved(t, [t EXCEPT
           !.pc = IF rest = << >> THEN "idle" ELSE "find_soon",
           !.sweep.users = rest,
           !.sweep.soon = << >>,
           !.sweep.store = @ \cup {med_collection},
           !.sweep.sent = IF sends
                          THEN @ \cup {[user |-> user_id, digest |-> digest]}
                          ELSE @])
    /\ out' = IF ~sends THEN out
              ELSE IF r = "ok"
              THEN [Gateway("daily_reminder", "", "send", "reminder",
                            user_id, 0) EXCEPT !.digest = digest]
              ELSE Gateway("daily_reminder", "", "send_failed", "reminder",
                           user_id, 0)
    /\ UNCHANGED <<convs, max_tasks, med_collection, next_oid, fsm_state,
                   fsm_data, today, day_ticks>>

\* ------------------------------------------------------------------------
\* The clock
\* ------------------------------------------------------------------------
\* midnight passes
DayTick ==
    /\ day_ticks < MaxDayTicks
    /\ day_ticks' = day_ticks + 1
    /\ today' = NextDay(today)
    /\ UNCHANGED <<convs, max_tasks, med_collection, next_oid, fsm_state, fsm_data,
                   tasks, out>>

\* ------------------------------------------------------------------------
\* The dispatcher: the updates that arrive and the awaits that return
\* ------------------------------------------------------------------------
\* the add flow with the names Names typed and the answers R of the gateway
AddFlow(Names, R) ==
    \/ \E c \in convs, m \in StartMsgIds : add_medicine_command(c, m)
    \/ \E c \in convs, m \in StartMsgIds, r \in R :
           add_medicine_callback_start(c, m, r)
    \/ \E c \in convs, text \in Names : process_medicine_name_text(c, text)
    \/ \E t \in tasks, r \in R : name_text_found(t, r)
    \/ \E c \in convs, text \in QuantityTexts, r \in R :
           process_medicine_quantity(c, text, r)
    \/ \E c \in convs, text \in NotesTexts, r \in R :
           process_medicine_notes(c, text, r)
    \/ \E c \in convs, text \in DateTexts :
           process_medicine_exp_date_text(c, text)
    \/ \E t \in tasks : insert_one(t)

Cancel(R) ==
    \/ \E c \in convs, r \in R : cancel_handler(c, r)
    \/ \E c \in convs, m \in StartMsgIds, r \in R :
           cancel_action_callback(c, m, r)

\* the edit flow of the fields Fields
EditFlow(Fields, R) ==
    \/ \E c \in convs, med_id \in 1..MaxOid, field \in Fields,
          m \in {0} \cup StartMsgIds :
           edit_medicine_field_start(c, med_id, field, m)
    \/ \E t \in tasks, r \in R : edit_start_found(t, r)
    \/ \E c \in convs, text \in AllNewValueTexts :
           process_new_value_text(c, text)
    \/ \E t \in tasks : new_value_found(t)
    \/ \E t \in tasks : save_edited_find_current(t)
    \/ \E t \in tasks : update_one(t)

Calendar ==
    \E c \in convs, day \in CalendarDays, m \in StartMsgIds :
        handle_date_select(c, day, m)

NavActions == {"prev_year", "prev_month", "next_month", "next_year"}
\* the calendar the conversation c has on screen, if any
CalendarShown(c) ==
    IF fsm_data[c].calendar_year # 0
    THEN {create_calendar(fsm_data[c].calendar_year,
                          fsm_data[c].calendar_month)}
    ELSE {}
\* the days of a month a user presses
SelectDays == {1, 15, 31}
\* the buttons of the calendar on screen are pressed
CalendarButtons(R) ==
    \/ \E c \in convs, action \in NavActions, m \in StartMsgIds, r \in R :
           \E cal \in CalendarShown(c) :
               handle_calendar_change(c, action, cal[1], cal[2], m, r)
    \/ \E c \in convs, m \in StartMsgIds :
           \E cal \in CalendarShown(c) :
               \E day \in {b \in day_buttons(cal) : b[3] \in SelectDays} :
                   handle_date_select(c, day, m)
    \/ \E c \in convs, m \in StartMsgIds :
           CalendarShown(c) # {} /\ handle_calendar_ignore(c, m)

Delete ==
    \E c \in convs, med_id \in 1..MaxOid, m \in StartMsgIds :
        delete_medicine_confirm(c, med_id, m)

\* viewing, listing and searching
Views ==
    \/ \E c \in convs, med_id \in 1..MaxOid, m \in {0} \cup StartMsgIds :
           view_medicine_callback(c, med_id, m)
    \/ \E c \in convs, med_id \in 1..MaxOid, m \in {0} \cup StartMsgIds :
           delete_medicine_request(c, med_id, m)
    \/ \E c \in convs : list_medicines_command(c)
    \/ \E c \in convs, page \in Pages, m \in StartMsgIds :
           list_medicines_callback(c, page, m)
    \/ \E c \in convs, page \in Pages, m \in StartMsgIds :
           handle_page_callback(c, page, m)
    \/ \E c \in convs, text \in SearchTexts :
           inline_search_handler(c, text, NoText)

SendResults == {"ok", "error"}
\* the runs of the daily reminder
Sweep ==
    \/ daily_reminder
    \/ \E t \in tasks : sweep_distinct(t)
    \/ \E t \in tasks : sweep_find_soon(t)
    \/ \E t \in tasks, r \in SendResults : sweep_find_expired(t, r)

\* the add flow started and a photo sent for the name
Barcode(R) ==
    \/ \E c \in convs, m \in StartMsgIds : add_medicine_command(c, m)
    \/ \E c \in convs, photo \in BarcodePhotos :
           process_medicine_name_photo(c, photo)
    \/ \E t \in tasks, r \in R : name_photo_found(t, r)
    \/ \E c \in convs, name \in BarcodeNames \ {NoText}, m \in StartMsgIds :
           handle_confirm_barcode_update(c, name, m)
    \/ \E c \in convs, m \in StartMsgIds : handle_add_different_barcode(c, m)

Next ==
    \/ AddFlow(NameTexts, EditResults)
    \/ Cancel(EditResults)
    \/ EditFlow(EditFields, EditResults)
    \/ Calendar
    \/ CalendarButtons(EditResults)
    \/ Delete
    \/ Views
    \/ Barcode(EditResults)
    \/ Sweep
    \/ DayTick

Spec == Init /\ [][Next]_vars

\* two conversations of one user adding medicines
AddNames == { <<" ">>, <<"a">>, <<"A", " ">> }
InitAdd == Start({"u1_private", "u1_group"}, MaxTasks, {}, 1)
NextAdd ==
    \/ AddFlow(AddNames, {"ok"})
    \/ Cancel({"ok"})
    \/ Calendar
SpecAdd == InitAdd /\ [][NextAdd]_vars

\* two conversations of one user editing and deleting the medicines stored
Stored(oid, user, name) ==
    [ _id |-> oid, added_by |-> user, name |-> name, name_lower |-> Lower(name),
      quantity |-> <<"5">>, notes |-> <<"-">>, exp_date |-> isoformat(Today0) ]
\* the names of the documents of one user with a long list, in the order
\* they were added
ListNames ==
    << <<"b">>, <<"a", "b">>, <<"B", "a">>, <<"a">>, <<"b", "a", "b">>,
       <<"A", "a", "b">>, <<"b", "b">>, <<"a", "a">>, <<"A", "b", "a">>,
       <<"b", "a", "a">>, <<"a", "b", "b">>, <<"a", "a", "a">> >>
ListPool ==
    {Stored(i, 1, ListNames[i]) : i \in 1..Len(ListNames)} \cup
    {Stored(Len(ListNames) + 1, 2, <<"a">>)}
\* the data of a conversation that has typed name, quantity and notes and
\* has the calendar of the month of the start on its prompt
AtCalendar(c) ==
    update_data(EmptyData,
        [ prompt_chat_id |-> ConvChat(c), prompt_message_id |-> 1,
          calendar_message_id |-> 1,
          name |-> <<"a">>, name_lower |-> <<"a">>, quantity |-> <<"5">>,
          notes |-> <<"-">>,
          calendar_year |-> Today0[1], calendar_month |-> Today0[2] ])
\* one conversation adding a medicine has come to the expiry date and picks
\* it on the calendar
InitCalendar ==
    /\ convs = {"u1_private"}
    /\ max_tasks = MaxTasksEdit
    /\ med_collection = {}
    /\ next_oid = 1
    /\ fsm_state = [c \in Convs |->
                       IF c = "u1_private" THEN WaitingExpiry ELSE NoState]
    /\ fsm_data = [c \in Convs |->
                      IF c = "u1_private" THEN AtCalendar(c) ELSE EmptyData]
    /\ tasks = {}
    /\ today = Today0
    /\ day_ticks = 0
    /\ out = Showing(Gateway("process_medicine_notes", "u1_private", "edit",
                             "calendar", ConvChat("u1_private"), 1),
                     create_calendar(Today0[1], Today0[2]), {})
\* the buttons pressed are those of the calendar on screen, or day buttons
\* of a calendar shown earlier; no button is pressed while a day picked is
\* being stored
NextCalendar ==
    \/ tasks = {} /\ CalendarButtons({"ok"})
    \/ tasks = {} /\ Calendar
    \/ \E t \in tasks : insert_one(t)
    \/ Cancel({"ok"})
    \/ DayTick
SpecCalendar == InitCalendar /\ [][NextCalendar]_vars

\* what is typed as an inline query
SearchQueries ==
    { <<" ">>, <<"a", "s", "p">>, <<" ", "A", "s">>, <<"s", "p", " ">>,
      <<"t", "s", "a">>, <<"s", "h">>, <<"x">>, <<"a", "x">>,
      <<"ru_ts">>, <<"ru_sh", "a">>, <<"ru_t", "ru_s">> }
\* documents of two users with Cyrillic and Latin names
SearchPool ==
    { Stored(1, 1, <<"ru_A", "ru_s", "ru_p">>),
      Stored(2, 1, <<"a", "s", "p">>),
      Stored(3, 1, <<"ru_ts", "ru_a">>),
      Stored(4, 1, <<"ru_t", "ru_s", "ru_a">>),
      Stored(5, 1, <<"ru_sh">>),
      Stored(6, 2, <<"ru_A", "ru_s", "ru_p">>) }
\* two users searching inline; any of the documents are stored
InitSearch ==
    \E docs \in SUBSET SearchPool :
        Start({"u1_private", "u2_private"}, MaxTasks, docs,
              Cardinality(SearchPool) + 1)
NextSearch ==
    \E c \in convs, text \in SearchQueries :
        inline_search_handler(c, text, NoText)
SpecSearch == InitSearch /\ [][NextSearch]_vars

\* the i-th name of a long series: i written in binary with the letters
\* a and b
RECURSIVE SeriesName(_)
SeriesName(i) ==
    IF i = 0 THEN << >>
    ELSE SeriesName(i \div 2) \o <<IF i % 2 = 0 THEN "a" ELSE "b">>
\* more than two pages of answers
SeriesSize == 2 * INLINE_LIMIT + 7
\* what is typed as an inline query by a user with many documents
OffsetQueries == { <<" ">>, <<"a">>, <<"b", "b">>, <<"A", "b", " ">> }
\* how many documents of the series are stored: none, a few, about one
\* page of them, about two pages of them
SeriesLengths ==
    {0, MEDS_PER_PAGE} \cup ((INLINE_LIMIT + 3)..(INLINE_LIMIT + 6))
        \cup ((2 * INLINE_LIMIT + 4)..SeriesSize)
\* the first user has added the first k documents of the series, the
\* second user one document or none
InitOffsets ==
    \E k \in SeriesLengths,
       other \in SUBSET {Stored(SeriesSize + 1, 2, <<"a", "b">>)} :
        Start({"u1_private", "u2_private"}, MaxTasks,
              {Stored(i, 1, SeriesName(i)) : i \in 1..k} \cup other,
              SeriesSize + 2)
\* the client sends a query with the empty offset, and asks for the next
\* page of the last answer with the offset of that answer
NextOffsets ==
    \/ \E c \in convs, text \in OffsetQueries :
           inline_search_handler(c, text, NoText)
    \/ \E c \in convs :
           /\ out.by = "inline_search_handler"
           /\ out.conv = c
           /\ out.next_offset # NoText
           /\ inline_search_handler(c, out.inline_query, out.next_offset)
SpecOffsets == InitOffsets /\ [][NextOffsets]_vars

\* a document with the expiry date d
Expiring(oid, user, name, d) ==
    [Stored(oid, user, name) EXCEPT !.exp_date = isoformat(d)]
\* documents of two users that expire on the day of the start, the day
\* before, and 29, 30 and 31 days later
SweepPool ==
    { Expiring(1, 1, <<"a">>, Today0),
      Expiring(2, 1, <<"b">>, <<2025, 12, 30>>),
      Expiring(3, 1, <<"B", "a">>, <<2026, 1, 29>>),
      Expiring(4, 1, <<"a", "a">>, <<2026, 1, 31>>),
      Expiring(5, 1, <<"a", "b">>, <<2026, 1, 30>>),
      Expiring(6, 1, <<"b", "b">>, Today0),
      Expiring(7, 2, <<"a">>, <<2026, 1, 31>>),
      Expiring(8, 2, <<"b">>, <<2025, 12, 30>>) }
\* the reminder runs while a user deletes documents
InitSweep ==
    Start({"u1_private"}, MaxTasks, SweepPool, Cardinality(SweepPool) + 1)
NextSweep ==
    \/ Sweep
    \/ Delete
    \/ DayTick
SpecSweep == InitSweep /\ [][NextSweep]_vars

\* the reminder runs over any of the documents that have expired or expire
\* 30 and 31 days later, while a user deletes documents
InitDigest ==
    \E docs \in SUBSET {m \in SweepPool : m._id \in {2, 4, 5, 7, 8}} :
        Start({"u1_private"}, MaxTasks, docs, Cardinality(SweepPool) + 1)
SpecDigest == InitDigest /\ [][NextSweep]_vars

\* two users browsing their lists; the first has added the first k
\* documents of the pool and may have deleted one of them, the second has
\* added its document or not
InitList ==
    \E k \in 0..Len(ListNames), gone \in 0..Len(ListNames),
       other \in SUBSET {Len(ListNames) + 1} :
        Start({"u1_private", "u2_private"}, MaxTasks,
              {d \in ListPool : \/ d._id \in other
                                \/ d._id <= k /\ d._id # gone},
              Len(ListNames) + 2)
NextList ==
    \/ \E c \in convs : list_medicines_command(c)
    \/ \E c \in convs, page \in Pages, m \in StartMsgIds :
           list_medicines_callback(c, page, m)
    \/ \E c \in convs, page \in Pages, m \in StartMsgIds :
           handle_page_callback(c, page, m)
SpecList == InitList /\ [][NextList]_vars

InitEdit ==
    Start({"u1_private", "u1_group"}, MaxTasksEdit,
          {Stored(1, 1, <<"a">>)}, 2)
NextEdit ==
    \/ EditFlow(EditFields, {"ok"})
    \/ Cancel({"ok"})
    \/ Calendar
    \/ Delete
SpecEdit == InitEdit /\ [][NextEdit]_vars

\* one conversation running every flow
InitAll == Start({"u1_private"}, MaxTasksEdit, {}, 1)
NextAll ==
    \/ AddFlow(AddNames, {"ok"})
    \/ Cancel({"ok"})
    \/ EditFlow(EditFields, {"ok"})
    \/ Calendar
    \/ Delete
    \/ DayTick
SpecAll == InitAll /\ [][NextAll]_vars

\* one conversation adding, renaming and deleting
InitStore == Start({"u1_private"}, MaxTasks, {}, 1)
NextStore ==
    \/ AddFlow(AddNames, {"ok"})
    \/ Cancel({"ok"})
    \/ EditFlow({"name"}, {"ok"})
    \/ Delete
SpecStore == InitStore /\ [][NextStore]_vars

\* two users, each with a medicine named "a", and each asking for the
\* medicines by both ids
InitOwners ==
    Start({"u1_private", "u2_private"}, MaxTasksEdit,
          {Stored(1, 1, <<"a">>), Stored(2, 2, <<"a">>)}, 3)
NextOwners ==
    \/ EditFlow({"name"}, {"ok"})
    \/ Cancel({"ok"})
    \/ Delete
    \/ Views
    \/ Barcode({"ok"})
SpecOwners == InitOwners /\ [][NextOwners]_vars

\* one conversation adding a medicine and editing one stored earlier, with
\* every answer of the gateway to the edit of a prompt
InitRender ==
    Start({"u1_private"}, MaxTasksEdit, {Stored(1, 1, <<"b">>)}, 2)
NextRender ==
    \/ AddFlow(AddNames, EditResults)
    \/ EditFlow({"name", "quantity"}, EditResults)
    \/ Cancel({"ok"})
SpecRender == InitRender /\ [][NextRender]_vars

\* one conversation editing two medicines stored earlier, the first of them
\* expired the day before
Expired(oid, user, name) ==
    [Stored(oid, user, name) EXCEPT !.exp_date = isoformat(<<2025, 12, 30>>)]
InitResubmit ==
    Start({"u1_private"}, MaxTasksEdit,
          {Expired(1, 1, <<"a">>), Stored(2, 1, <<"b">>)}, 3)
NextResubmit ==
    \/ EditFlow(EditFields, {"ok"})
    \/ Cancel({"ok"})
    \/ Calendar
    \/ Delete
SpecResubmit == InitResubmit /\ [][NextResubmit]_vars

\* ------------------------------------------------------------------------
\* Properties
\* ------------------------------------------------------------------------
\* the documents a step adds to the collection
Added == {m \in med_collection' : \A o \in med_collection : o._id # m._id}
\* the commits a step starts
NewCommits == {t \in tasks' : t.h = "save_new" /\ t \notin tasks}
\* the key of the document of the commit t is in the collection already
KeyTaken(t) ==
    \E m \in med_collection :
        m.added_by = ConvUser(t.conv) /\ m.name_lower = t.doc.name_lower

UniqueIndexHolds ==
    /\ \A m \in med_collection : m.name_lower = Lower(m.name)
    /\ \A m1, m2 \in med_collection :
          (m1.added_by = m2.added_by /\ m1.name_lower = m2.name_lower)
              => m1 = m2
DuplicateInsertRefused ==
    \A t \in tasks :
        (KeyTaken(t) /\ insert_one(t)) =>
            /\ med_collection' = med_collection
            /\ out'.view = "duplicate_error"

\* C1: whatever add-flow commits, renames and deletions interleave, no two
\* documents of the collection have the same owner and the same lower-cased
\* name, and an insert whose (owner, name_lower) is in the collection is
\* refused with the duplicate error and leaves the collection as it was.
C1_UniqueOwnerKey == [](UniqueIndexHolds) /\ [][DuplicateInsertRefused]_vars

\* C1 witness: an insert has been refused by the index while the collection
\* holds a document
C1_InsertRefused ==
    /\ out.by = "_save_new_medicine" /\ out.view = "duplicate_error"
    /\ med_collection # {}
    /\ next_oid > 1

\* C2: of two add flows of one user that passed the name check with the same
\* name_lower, the commit that finds the key free inserts one document; the
\* commit that finds it taken changes nothing in the collection, shows the
\* duplicate error, destroys the context of its conversation and ends
\* without another insert.
C2_OneCommitWins ==
    [][\A t \in tasks :
          insert_one(t) =>
              IF KeyTaken(t)
              THEN /\ med_collection' = med_collection
                   /\ out'.view = "duplicate_error" /\ out'.conv = t.conv
                   /\ fsm_state'[t.conv] = NoState
                   /\ fsm_data'[t.conv] = EmptyData
                   /\ tasks' = tasks \ {t}
              ELSE /\ Cardinality(Added) = 1
                   /\ \A m \in Added :
                         /\ m.added_by = ConvUser(t.conv)
                         /\ m.name_lower = t.doc.name_lower
                   /\ tasks' = tasks \ {t}]_vars

\* C2 witness: the flow of the group chat lost the commit to the flow of the
\* private chat: one document, the duplicate error, both contexts destroyed
C2_LoserRefused ==
    /\ out.by = "_save_new_medicine" /\ out.view = "duplicate_error"
    /\ out.conv = "u1_group"
    /\ fsm_state["u1_group"] = NoState /\ fsm_data["u1_group"] = EmptyData
    /\ fsm_state["u1_private"] = NoState
    /\ Cardinality(med_collection) = 1
    /\ tasks = {}

\* a handler between its first read and its last write of the context
Suspended(t) == t.h \in {"name_text", "save_new", "new_value", "save_edited"}

\* C3: while a handler of a conversation is between its first read and its
\* last write of the context, no other handler writes the context of that
\* conversation.
C3_Serialized ==
    [][\A t \in tasks :
          (Suspended(t) /\ t \in tasks') =>
              /\ fsm_state'[t.conv] = fsm_state[t.conv]
              /\ fsm_data'[t.conv] = fsm_data[t.conv]]_vars

InFlow(c) == fsm_state[c] \in AddStates \cup {WaitingNewValue}
CancelStep(c) ==
    \/ \E r \in EditResults : cancel_handler(c, r)
    \/ \E m \in StartMsgIds, r \in EditResults :
           cancel_action_callback(c, m, r)

\* C4: a cancel (command, keyword or button) received in a state of the add
\* flow or of the edit flow destroys the context of the conversation and
\* leaves the collection as it was.
C4_CancelDestroysContext ==
    [][\A c \in convs :
          (InFlow(c) /\ CancelStep(c)) =>
              /\ fsm_state'[c] = NoState
              /\ fsm_data'[c] = EmptyData
              /\ med_collection' = med_collection]_vars

\* C4 witness: a flow has been cancelled while the collection holds a
\* document
C4_Cancelled ==
    /\ out.by = "cancel_handler" /\ out.view = "main_menu"
    /\ fsm_state[out.conv] = NoState /\ fsm_data[out.conv] = EmptyData
    /\ med_collection # {}

Successor(s) ==
    CASE s = NoState -> WaitingName
      [] s = WaitingName -> WaitingQuantity
      [] s = WaitingQuantity -> WaitingNotes
      [] s = WaitingNotes -> WaitingExpiry
      [] OTHER -> NoState

\* C5: every step that changes the state of the add flow goes to the
\* immediate successor of the state it leaves or to no state: no state is
\* skipped and no earlier state entered again.
C5_LinearOrder ==
    [][\A c \in convs :
          fsm_state'[c] # fsm_state[c] =>
              \/ fsm_state'[c] = NoState
              \/ fsm_state'[c] = Successor(fsm_state[c])]_vars

NonEmptyDoc(d) ==
    /\ d.name # NoText /\ d.quantity # NoText /\ d.notes # NoText
    /\ d.exp_date # NoText /\ strptime(d.exp_date) # NoDate

\* C6: a document is added to the collection only by the insert of a commit
\* of the add flow, whose document has a name, a quantity, notes and a date;
\* a commit starts only in waiting_for_exp_date with these collected; no
\* other step (edit flow, cancel, calendar, delete, midnight) adds one.
C6_OnlyCommitAdds ==
    [][/\ Added # {} =>
              /\ Cardinality(Added) = 1
              /\ \E t \in tasks :
                    /\ t.h = "save_new" /\ insert_one(t)
                    /\ NonEmptyDoc(t.doc)
                    /\ \A m \in Added : m.name = t.doc.name
       /\ \A t \in NewCommits :
              /\ fsm_state[t.conv] = WaitingExpiry
              /\ fsm_data[t.conv].name # NoText
              /\ fsm_data[t.conv].quantity # NoText
              /\ fsm_data[t.conv].notes # NoText
              /\ NonEmptyDoc(t.doc)]_vars

\* C6 witness: a commit has added a document, and the edit flow has
\* changed one
C6_Committed ==
    /\ \E m \in med_collection : m._id = 1 /\ m.quantity = <<"7">>
    /\ next_oid = 2

Trimmed(s) == s = NoText \/ (s[1] # " " /\ s[Len(s)] # " ")
CollectedTrimmed ==
    \A c \in convs :
        /\ Trimmed(fsm_data[c].name) /\ Trimmed(fsm_data[c].quantity)
        /\ Trimmed(fsm_data[c].notes)
        /\ fsm_data[c].name_lower = Lower(fsm_data[c].name)

\* C7: the document a commit inserts has the user of the conversation as
\* owner, the trimmed name, quantity and notes collected, the lower-cased
\* name as name_lower and the ISO form of the accepted date; find by its id
\* and owner right after the insert returns this document.
C7_CommitStoresCollected ==
    /\ [](CollectedTrimmed)
    /\ [][/\ \A t \in NewCommits :
                /\ t.doc.name = fsm_data'[t.conv].name
                /\ t.doc.name_lower = Lower(t.doc.name)
                /\ t.doc.quantity = fsm_data'[t.conv].quantity
                /\ t.doc.notes = fsm_data'[t.conv].notes
                /\ t.doc.exp_date = fsm_data'[t.conv].exp_date
                /\ strptime(t.doc.exp_date) # NoDate
                /\ isoformat(strptime(t.doc.exp_date)) = t.doc.exp_date
          /\ \A t \in tasks :
                (~KeyTaken(t) /\ insert_one(t)) =>
                    \E m \in Added :
                        /\ Added = {m}
                        /\ m.added_by = ConvUser(t.conv)
                        /\ m.name = t.doc.name /\ Trimmed(m.name)
                        /\ m.name_lower = Lower(m.name)
                        /\ m.quantity = t.doc.quantity /\ Trimmed(m.quantity)
                        /\ m.notes = t.doc.notes /\ Trimmed(m.notes)
                        /\ m.exp_date = t.doc.exp_date
                        /\ {x \in med_collection' :
                               x._id = m._id /\ x.added_by = m.added_by} = {m}
         ]_vars

\* C7 witness: the texts "A ", " 5", "-" and "2026-1-2 " have been
\* committed
C7_Stored ==
    \E m \in med_collection :
        /\ m.added_by = 1
        /\ m.name = <<"A">> /\ m.name_lower = <<"a">>
        /\ m.quantity = <<"5">> /\ m.notes = <<"-">>
        /\ m.exp_date = isoformat(<<2026, 1, 2>>)

\* the days of a date since a fixed origin, months counted as 31 days
DayNum(d) == (d[1] * 12 + d[2]) * 31 + d[3]
InPast(d) == d # NoDate /\ DayNum(d) < DayNum(today)
\* the step leaves the contexts, the collection and the commits alone
Rejected ==
    /\ fsm_state' = fsm_state /\ fsm_data' = fsm_data
    /\ med_collection' = med_collection /\ tasks' = tasks
CarriesDate(t) ==
    \/ t.h = "save_new" /\ t.pc = "insert_one"
    \/ t.h = "save_edited" /\ t.field = "exp_date"
DateOf(t) == IF t.h = "save_new" THEN t.doc.exp_date ELSE t.txt

\* C8: a date before today, typed or picked on the calendar, in the add
\* flow or in the edit flow, is rejected: the state stays, nothing is
\* stored and no insert or update starts; every date a handler accepts is
\* not before today, and every date written to the collection is one a
\* handler accepted.
C8_PastDateRejected ==
    [][/\ \A c \in convs :
              fsm_state[c] = WaitingExpiry =>
                  \A text \in DateTexts :
                      ( /\ InPast(strptime(Strip(text)))
                        /\ process_medicine_exp_date_text(c, text) )
                          => Rejected
       /\ \A c \in convs :
              ( /\ fsm_state[c] = WaitingNewValue
                /\ fsm_data[c].field_to_edit = "exp_date" ) =>
                  \A text \in NewValueTexts("exp_date") :
                      ( /\ InPast(strptime(Strip(text)))
                        /\ process_new_value_text(c, text) )
                          => Rejected
       /\ \A c \in convs, day \in CalendarDays, m \in StartMsgIds :
              (InPast(day) /\ handle_date_select(c, day, m)) => Rejected
       /\ \A t \in tasks' :
              (CarriesDate(t) /\ t.pc # "update_one" /\ t \notin tasks)
                  => ~InPast(strptime(DateOf(t)))
       /\ \A m \in med_collection' :
              (\A o \in med_collection :
                   o._id = m._id => o.exp_date # m.exp_date)
                  => \E t \in tasks :
                         /\ CarriesDate(t) /\ DateOf(t) = m.exp_date
                         /\ t \notin tasks'
      ]_vars

\* C8 witness: after midnight a typed date is rejected as past in
\* waiting_for_exp_date
C8_RejectedAfterMidnight ==
    /\ day_ticks = 1
    /\ out.by = "process_medicine_exp_date_text" /\ out.view = "date_past"
    /\ fsm_state[out.conv] = WaitingExpiry
    /\ med_collection # {}

FailureViews ==
    { "name_empty", "name_duplicate", "quantity_empty", "notes_empty",
      "date_format", "date_past", "invalid_value" }

\* C9: a validation failure is reported by rendering the prompt again, on
\* the message bound, and leaves the state, the collected values and the
\* collection as they were.
C9_FailureRendersPrompt ==
    [][(out' # out /\ out'.view \in FailureViews) =>
          /\ out'.op = "edit"
          /\ out'.msg \in { fsm_data[out'.conv].prompt_message_id,
                            fsm_data[out'.conv].calendar_message_id,
                            fsm_data[out'.conv].inline_message_id }
          /\ fsm_state' = fsm_state /\ fsm_data' = fsm_data
          /\ med_collection' = med_collection]_vars

\* C10: when a new value has passed validation, the handler ends, whatever
\* the update found, with the context destroyed and the detail view of the
\* document rendered on the message bound.
C10_UpdateOutcomes ==
    [][\A t \in tasks :
          (t.h = "save_edited" /\ tasks' = tasks \ {t}) =>
              /\ fsm_state'[t.conv] = NoState
              /\ fsm_data'[t.conv] = EmptyData
              /\ out'.op = "edit"
              /\ out'.view \in {"detail", "not_found_then_detail"}
              /\ out'.msg = RenderAt(t)]_vars

\* the value the edit flow stores for the text typed for a field
Canonical(field, text) ==
    IF field = "exp_date" /\ strptime(Strip(text)) # NoDate
    THEN isoformat(strptime(Strip(text)))
    ELSE Strip(text)
\* the text typed is the value the field of the document in edit has now
SameAsCurrent(c, text) ==
    /\ fsm_data[c].field_to_edit \in EditFields
    /\ \E m \in find_by_id(fsm_data[c].med_id, ConvUser(c)) :
          m[fsm_data[c].field_to_edit] =
              Canonical(fsm_data[c].field_to_edit, text)
\* the submission goes on to the update: no error is replied, the context
\* stays and a task awaits the database
GoesOn ==
    /\ out' = out
    /\ fsm_state' = fsm_state /\ fsm_data' = fsm_data
    /\ tasks' # tasks
\* the update of t sets the field to the value it has
UpdatesToSame(t) ==
    /\ t.h = "save_edited" /\ t.pc = "update_one"
    /\ \E m \in find_by_id(t.med, ConvUser(t.conv)) : m[t.field] = t.txt
NoChangeOutcome(t) ==
    /\ med_collection' = med_collection
    /\ fsm_state'[t.conv] = NoState /\ fsm_data'[t.conv] = EmptyData
    /\ out'.by = "_save_edited_medicine" /\ out'.op = "edit"
    /\ out'.view = "detail" /\ out'.msg = RenderAt(t)
SetIsIdempotent ==
    \A t \in tasks, m \in med_collection :
        t.h = "save_edited" =>
            AfterSet(AfterSet(m, t.field, t.txt), t.field, t.txt) =
                AfterSet(m, t.field, t.txt)

\* C11 as stated: a value equal to the current value of the field is never
\* refused when it is submitted, and its update leaves the document as it
\* is, destroys the context and renders the detail view.
C11_SameValueNotError ==
    [][/\ \A c \in convs :
              fsm_state[c] = WaitingNewValue =>
                  \A text \in AllNewValueTexts :
                      (SameAsCurrent(c, text) /\ process_new_value_text(c, text))
                          => GoesOn
       /\ \A t \in tasks :
              (UpdatesToSame(t) /\ update_one(t)) => NoChangeOutcome(t)]_vars

\* C11 amended: a value that passes validation and equals the current value
\* of the field goes on to the update; an update that sets a field to the
\* value it has leaves the document as it is, destroys the context and
\* renders the detail view; setting the same value twice gives the document
\* of the first time.  (An expiry date that has passed is refused although
\* it is the current value.)
C11_ValidSameValueNoChange ==
    /\ [](SetIsIdempotent)
    /\ [][/\ \A c \in convs :
                fsm_state[c] = WaitingNewValue =>
                    \A text \in AllNewValueTexts :
                        ( /\ SameAsCurrent(c, text)
                          /\ ~InPast(strptime(Strip(text)))
                          /\ process_new_value_text(c, text) ) => GoesOn
         /\ \A t \in tasks :
                (UpdatesToSame(t) /\ update_one(t)) => NoChangeOutcome(t)]_vars

\* C11 witness: the name "a" has been submitted for the medicine named "a";
\* the update matched, nothing in the collection has changed and the detail
\* view is rendered
C11_Resubmitted ==
    /\ med_collection = {Expired(1, 1, <<"a">>), Stored(2, 1, <<"b">>)}
    /\ out.by = "_save_edited_medicine" /\ out.view = "detail"
    /\ fsm_state["u1_private"] = NoState

\* the documents of the user of t, other than the one in edit, that hold the
\* key of the name typed
OthersWithKey(t) ==
    {m \in med_collection :
        /\ m.added_by = ConvUser(t.conv) /\ m._id # t.med
        /\ m.name_lower = Lower(t.txt)}
\* the name typed has the key of the document in edit
OwnKey(t) ==
    \E m \in find_by_id(t.med, ConvUser(t.conv)) :
        m.name_lower = Lower(t.txt)

\* C12: in the edit flow of the name, a name whose key is the key of the
\* document in edit (the same name, or other letter case) is accepted and
\* goes on to the update, which stores it; a name whose key another document
\* of the user holds is refused with the duplicate warning, and the state,
\* the data and the collection stay as they were.
C12_SelfMatchIsNoConflict ==
    [][\A t \in tasks :
          /\ (t.h = "new_value" /\ new_value_found(t)) =>
                /\ OwnKey(t) => OthersWithKey(t) = {}
                /\ IF OthersWithKey(t) # {}
                   THEN /\ out'.by = "process_new_value_text"
                        /\ out'.view = "name_duplicate"
                        /\ fsm_state' = fsm_state /\ fsm_data' = fsm_data
                        /\ med_collection' = med_collection
                        /\ tasks' = tasks \ {t}
                   ELSE /\ out' = out
                        /\ \E t2 \in tasks' :
                              /\ t2.h = "save_edited" /\ t2.field = "name"
                              /\ t2.med = t.med /\ t2.txt = t.txt
          /\ ( /\ t.h = "save_edited" /\ t.field = "name" /\ OwnKey(t)
               /\ update_one(t) ) =>
                \E m \in med_collection' :
                    /\ m._id = t.med /\ m.name = t.txt
                    /\ m.name_lower = Lower(t.txt)]_vars

\* C12 witness: the medicine "b" has been renamed "B", and then the name
\* "B" has been refused for the medicine "a"
C12_CaseChangeThenConflict ==
    /\ \E m \in med_collection : m._id = 2 /\ m.name = <<"B">>
    /\ \E m \in med_collection : m._id = 1 /\ m.name = <<"a">>
    /\ out.by = "process_new_value_text" /\ out.view = "name_duplicate"
    /\ fsm_state["u1_private"] = WaitingNewValue
    /\ fsm_data["u1_private"].med_id = 1

\* the documents of user that a step adds, removes or changes
Touched(user) ==
    {m \in (med_collection \ med_collection') \cup
            (med_collection' \ med_collection) : m.added_by = user}
\* a handler of a conversation of user writes to the collection in the step
WritesFor(user) ==
    \E c \in convs :
        /\ ConvUser(c) = user
        /\ \/ \E t \in tasks : t.conv = c /\ (insert_one(t) \/ update_one(t))
           \/ \E med_id \in 1..MaxOid, m \in StartMsgIds :
                  delete_medicine_confirm(c, med_id, m)
\* med_id is not the id of a document of the user of c
NotOwn(c, med_id) ==
    \A m \in med_collection : m._id = med_id => m.added_by # ConvUser(c)
NotFoundViews == {"not_found", "not_found_then_menu", "not_found_then_list"}

\* C13: the documents of a user are written only by handlers of that user's
\* conversations; every document a handler renders or returns belongs to
\* the user it serves; and a view, a deletion request, a confirmed deletion
\* or an edit start with the id of another user's document ends as not
\* found, with the collection and the contexts as they were.
C13_OwnerFilterAlways ==
    [][/\ \A user \in {ConvUser(c) : c \in Convs} :
              Touched(user) # {} => WritesFor(user)
       /\ out' # out =>
              \A i \in 1..Len(out'.shown) :
                  \E m \in med_collection \cup med_collection' :
                      m._id = out'.shown[i] /\ m.added_by = ConvUser(out'.conv)
       /\ \A c \in convs, med_id \in 1..MaxOid, m \in {0} \cup StartMsgIds :
              ( /\ NotOwn(c, med_id)
                /\ \/ view_medicine_callback(c, med_id, m)
                   \/ delete_medicine_request(c, med_id, m)
                   \/ delete_medicine_confirm(c, med_id, m) ) =>
                  /\ out'.view \in NotFoundViews /\ out'.conv = c
                  /\ out'.shown = << >> \/ out'.view = "not_found_then_list"
                  /\ med_collection' = med_collection
       /\ \A t \in tasks :
              (NotOwn(t.conv, t.med) /\ edit_start_found(t, "ok")) =>
                  /\ out'.view = "not_found" /\ out'.conv = t.conv
                  /\ fsm_state' = fsm_state /\ fsm_data' = fsm_data
                  /\ med_collection' = med_collection]_vars

\* C13 witness: user 2 has confirmed the deletion of the document of user
\* 1 and was told it is not found; both documents are in the collection
C13_ForeignIdNotFound ==
    /\ out.by = "delete_medicine_confirm" /\ out.conv = "u2_private"
    /\ out.view = "not_found"
    /\ \E m \in med_collection : m._id = 1 /\ m.added_by = 1
    /\ \E m \in med_collection : m._id = 2 /\ m.added_by = 2

PromptViews ==
    {"prompt_quantity", "prompt_notes", "calendar", "prompt_new_value"}

\* C14: when the prompt of a conversation is rendered by a new message
\* because the message bound could not be edited, the new message becomes
\* the prompt bound, so that the next render goes to it.
C14_FallbackRebinds ==
    [][( /\ out' # out
         /\ out'.op \in {"send", "fallback_send"}
         /\ out'.view \in PromptViews ) =>
            fsm_data'[out'.conv].prompt_message_id = out'.msg]_vars

\* the answers r after which safe_edit_message reports a failure for the
\* prompt of the task t
Fails(t, r) == r = "error" \/ (r = "not_found" /\ t.chat = 0)

\* C15: safe_edit_message reports success and sends nothing when the
\* gateway answers "not modified"; it reports failure and sends nothing when
\* an inline message is not found or invalid, and when the gateway answers
\* with any other error.  Seen at its callers: after "not modified" the
\* flow goes on with the prompt bound as before; after a failure the edit
\* start gives up with an alert, and the name step sends the prompt itself.
C15_RenderOutcomes ==
    [][\A t \in tasks :
          /\ \A r \in EditResults :
                ( /\ t.h = "edit_start"
                  /\ find_by_id(t.med, ConvUser(t.conv)) # {}
                  /\ edit_start_found(t, r) ) =>
                    /\ out'.op # "fallback_send" \/ (r = "not_found" /\ t.chat # 0)
                    /\ r = "not_modified" =>
                          /\ out'.op = "edit" /\ out'.view = "prompt_new_value"
                          /\ out'.msg = (IF t.inline # 0 THEN t.inline ELSE t.msg)
                          /\ fsm_state'[t.conv] = WaitingNewValue
                    /\ Fails(t, r) =>
                          /\ out'.op = "alert" /\ out'.view = "edit_failed"
                          /\ fsm_state' = fsm_state /\ fsm_data' = fsm_data
          /\ \A r \in EditResults :
                ( /\ t.h = "name_text"
                  /\ find_by_name(Lower(t.txt), ConvUser(t.conv)) = {}
                  /\ name_text_found(t, r) ) =>
                    /\ out'.op # "fallback_send" \/ r = "not_found"
                    /\ r = "not_modified" =>
                          /\ out'.op = "edit" /\ out'.msg = t.msg
                          /\ fsm_data'[t.conv].prompt_message_id =
                                 fsm_data[t.conv].prompt_message_id
                    /\ r = "error" =>
                          /\ out'.op = "send" /\ out'.msg # t.msg
                          /\ out'.by = "process_medicine_name_text"]_vars

\* C15 witness: the prompt of an edit started on an inline message could
\* not be rendered, and the edit start gave up
C15_InlineRenderFailed ==
    /\ out.by = "edit_medicine_field_start" /\ out.view = "edit_failed"
    /\ out.chat = 0
    /\ fsm_state["u1_private"] = NoState
    /\ med_collection # {}

OwnRecords(user) == {m \in med_collection : m.added_by = user}
\* the position of the record d among the records of its owner ordered by
\* name_key ascending
Position(d) ==
    1 + Cardinality({e \in OwnRecords(d.added_by) :
                        StrLT(e.name_lower, d.name_lower)})
ShowsPage(shown, nav, user, p) ==
    LET n == Cardinality(OwnRecords(user))
        pages == CHOOSE k \in 0..n :
                     k * MEDS_PER_PAGE >= n /\ (k - 1) * MEDS_PER_PAGE < n
        first == (p - 1) * MEDS_PER_PAGE + 1
        last == IF p * MEDS_PER_PAGE < n THEN p * MEDS_PER_PAGE ELSE n
    IN  (1 <= p /\ p <= pages) =>
            /\ Len(shown) = last - first + 1
            /\ \A i \in 1..Len(shown) :
                   \E d \in OwnRecords(user) :
                       d._id = shown[i] /\ Position(d) = first + i - 1
            /\ ("prev" \in nav) <=> (p > 1)
            /\ ("next" \in nav) <=> (p < pages)

\* C16: a list rendering of page p, 1 <= p <= ceil(n/5), of a user with n
\* records shows exactly the records at the positions (p-1)*5+1 ..
\* min(p*5, n) of the user's records ordered by name_key ascending, the prev
\* control iff p > 1 and the next control iff p < ceil(n/5).
C16_PageShowsItsSlice ==
    [][\A c \in convs, p \in Pages, m \in StartMsgIds :
          ( /\ out'.view = "list" /\ out'.conv = c
            /\ \/ list_medicines_callback(c, p, m)
               \/ handle_page_callback(c, p, m) ) =>
                ShowsPage(out'.shown, out'.nav, ConvUser(c), p)]_vars

\* C16 witness: the third page of a list of twelve records is on screen, with
\* its two records and the prev control only
C16_LastPageOfTwelve ==
    /\ out.by = "handle_page_callback" /\ out.view = "list"
    /\ Cardinality(OwnRecords(ConvUser(out.conv))) = Len(ListNames)
    /\ Len(out.shown) = Len(ListNames) - 2 * MEDS_PER_PAGE
    /\ out.nav = {"prev"}

DateLE(a, b) == a = b \/ DateLT(a, b)
Expiry(m) == strptime(m.exp_date)
LineIds(lines) == {lines[i]._id : i \in 1..Len(lines)}
NoLineTwice(lines) == Cardinality(LineIds(lines)) = Len(lines)
AscendingByExpiry(lines) ==
    \A i, j \in 1..Len(lines) :
        i < j => DateLE(Expiry(lines[i]), Expiry(lines[j]))
OwnedBy(user) == {m \in med_collection : m.added_by = user}

\* C17: in a run of the reminder on the day T a record is in the
\* expiring-soon section of its owner iff T <= expiry <= T + 30 and in the
\* expired section iff expiry < T, no record is in both sections, and each
\* section is in ascending order of expiry.  The sections are those the
\* queries of the run return and the reminder handed to the gateway shows.
C17_SweepSections ==
    [][\A t \in tasks : \A t2 \in tasks' :
          ( /\ t.h = "daily_reminder" /\ t2.h = "daily_reminder" /\ t2 # t
            /\ t.pc \in {"find_soon", "find_expired"} ) =>
              LET T == t.sweep.today
                  user == Head(t.sweep.users)
                  sends == t2.sweep.sent # t.sweep.sent
                  digest ==
                      IF sends
                      THEN (CHOOSE d \in t2.sweep.sent \ t.sweep.sent :
                                TRUE).digest
                      ELSE NoDigest
              IN
              /\ t.pc = "find_soon" =>
                    /\ \A m \in OwnedBy(user) :
                          m._id \in LineIds(t2.sweep.soon) <=>
                              /\ DateLE(T, Expiry(m))
                              /\ DateLE(Expiry(m), AddDays(T, 30))
                    /\ LineIds(t2.sweep.soon) \subseteq
                           {m._id : m \in OwnedBy(user)}
              /\ t.pc = "find_expired" =>
                    /\ sends =>
                          /\ out'.by = "daily_reminder" /\ out'.chat = user
                          /\ out'.op = "send" => out'.digest = digest
                    /\ LineIds(digest.soon) = LineIds(t.sweep.soon)
                    /\ \A m \in OwnedBy(user) :
                          m._id \in LineIds(digest.expired) <=>
                              DateLT(Expiry(m), T)
                    /\ LineIds(digest.expired) \subseteq
                           {m._id : m \in OwnedBy(user)}
                    /\ LineIds(digest.soon) \cap LineIds(digest.expired) = {}
                    /\ NoLineTwice(digest.soon) /\ NoLineTwice(digest.expired)
                    /\ AscendingByExpiry(digest.soon)
                    /\ AscendingByExpiry(digest.expired)]_vars

\* C17 witness: the reminder of the day of the start went to the first user
\* with the four records that expire within 30 days and the one expired,
\* while the record that expires a day later is stored and left out
C17_ReminderSent ==
    /\ out.by = "daily_reminder" /\ out.op = "send" /\ out.chat = 1
    /\ Len(out.digest.soon) = 4 /\ Len(out.digest.expired) = 1
    /\ \E m \in med_collection :
           /\ m.added_by = 1 /\ m.exp_date = isoformat(<<2026, 1, 31>>)
           /\ m._id \notin LineIds(out.digest.soon)
    /\ \A t \in SweepTasks : t.sweep.today = Today0

PressedDays(c) ==
    CalendarDays \cup
    UNION {day_buttons(cal) : cal \in CalendarShown(c)}

\* C19: a day button with the callback data (y, m, d), not in the past,
\* pressed in waiting_for_exp_date passes exactly the date (y, m, d) to the
\* commit step, whatever navigation went before and whatever month the
\* conversation has recorded, and the commit stores that date.
C19_SelectedDateCommitted ==
    [][/\ \A c \in convs, m \in StartMsgIds :
            \A day \in PressedDays(c) :
              ( /\ fsm_state[c] = WaitingExpiry
                /\ ~DateLT(day, today)
                /\ fsm_data[c].prompt_chat_id # 0
                /\ fsm_data[c].calendar_message_id > 0
                /\ handle_date_select(c, day, m) ) =>
                  \E t \in tasks' \ tasks :
                      /\ t.h = "save_new" /\ t.conv = c
                      /\ strptime(t.doc.exp_date) = day
                      /\ Len(t.doc.exp_date) = 10
       /\ \A t \in tasks :
            (t.h = "save_new" /\ insert_one(t)) =>
                \A doc \in med_collection' \ med_collection :
                    doc.exp_date = t.doc.exp_date]_vars

\* C19 witness: the 15th of February 2027, reached from December 2025 by the
\* navigation buttons, is the expiry date of the medicine stored
C19_PickedAfterNavigation ==
    /\ fsm_state["u1_private"] = NoState
    /\ \E doc \in med_collection :
           /\ doc.exp_date =
                  <<"2", "0", "2", "7", "-", "0", "2", "-", "1", "5">>
           /\ doc.name = <<"a">>
    /\ out.by = "_save_new_medicine"

\* the year a navigation button leads to
YearAfter(action, year, month) ==
    CASE action = "prev_year" -> year - 1
      [] action = "next_year" -> year + 1
      [] action = "prev_month" /\ month = 1 -> year - 1
      [] action = "next_month" /\ month = 12 -> year + 1
      [] OTHER -> year

\* C20: a navigation press on the calendar on screen renders and records a
\* year within [Y - 5, Y + 10], Y the year of the day of the press; a press
\* that leads to a year outside is answered with a notice, renders nothing
\* and leaves the recorded year and month as they were.
C20_YearWindow ==
    [][\A c \in convs, action \in NavActions, m \in StartMsgIds,
         r \in EditResults :
          \A cal \in CalendarShown(c) :
            handle_calendar_change(c, action, cal[1], cal[2], m, r) =>
              LET year == YearAfter(action, cal[1], cal[2])
                  inside == today[1] - 5 <= year /\ year <= today[1] + 10
              IN
              /\ ~inside =>
                    /\ out'.op = "alert" /\ out'.view = "years_only"
                    /\ out'.shown = << >>
                    /\ fsm_data' = fsm_data /\ fsm_state' = fsm_state
              /\ out'.view = "calendar" =>
                    /\ inside
                    /\ out'.shown[1] = year
                    /\ out'.msg = fsm_data[c].calendar_message_id
              /\ fsm_data'[c].calendar_year # fsm_data[c].calendar_year =>
                    /\ inside
                    /\ fsm_data'[c].calendar_year = year]_vars

\* C20 witness: the calendar shows the last year of the window and a press
\* on next_year has been answered with the notice
C20_RejectedAtEdge ==
    /\ out.by = "handle_calendar_change" /\ out.view = "years_only"
    /\ fsm_state["u1_private"] = WaitingExpiry
    /\ fsm_data["u1_private"].calendar_year = today[1] + 10
    /\ fsm_data["u1_private"].calendar_month = 12

LatinLetters == {"a", "b", "h", "n", "p", "s", "t", "x", "A", "B"}
CyrillicLetters ==
    {"ru_a", "ru_b", "ru_n", "ru_p", "ru_s", "ru_t", "ru_h", "ru_ts",
     "ru_sh", "ru_A", "ru_B"}
LatinOnly(q) == q # << >> /\ \A i \in 1..Len(q) : q[i] \in LatinLetters
IsCyrillic(key) ==
    key # << >> /\ \A i \in 1..Len(key) : key[i] \in CyrillicLetters
\* the query letter by letter in Cyrillic, for a query of letters that have
\* one and form no pair that stands for one Cyrillic letter
LetterByLetter(q) == [i \in 1..Len(q) |-> en_ru(q[i])[1]]
Plain(q) ==
    /\ \A i \in 1..Len(q) : en_ru(q[i]) # <<q[i]>>
    /\ \A i \in 1..(Len(q) - 1) :
           <<q[i], q[i + 1]>> \notin {<<"t", "s">>, <<"s", "h">>}

\* C21: an inline search with a Latin-only query returns a record of the
\* requesting user with a Cyrillic name_key when the transliteration of the
\* query is a substring of the name_key ("asp" finds the name_key written
\* ru_a ru_s ru_p), and any query returns a record whose name_key contains
\* the query itself; either match alone returns the record.
C21_SearchMatches ==
    [][\A c \in convs, text \in SearchQueries :
          inline_search_handler(c, text, NoText) =>
            LET q == Lower(Strip(text))
                ids == {out'.shown[i] : i \in 1..Len(out'.shown)}
            IN
            /\ q # << >> => out'.view = "results"
            /\ \A m \in med_collection :
                  (q # << >> /\ m.added_by = ConvUser(c)) =>
                    /\ Contains(m.name_lower, q) => m._id \in ids
                    /\ ( /\ LatinOnly(q) /\ IsCyrillic(m.name_lower)
                         /\ Contains(m.name_lower, transliterate(q)) ) =>
                           m._id \in ids
                    /\ ( /\ LatinOnly(q) /\ Plain(q)
                         /\ Contains(m.name_lower, LetterByLetter(q)) ) =>
                           m._id \in ids
                    /\ ( /\ q = <<"a", "s", "p">>
                         /\ m.name_lower = <<"ru_a", "ru_s", "ru_p">> ) =>
                           m._id \in ids]_vars

\* C21 witness: one query has found the record with the Latin name asp by
\* its letters and the record with the Cyrillic name by transliteration,
\* and not the record of the other user
C21_BothScriptsFound ==
    /\ out.by = "inline_search_handler" /\ out.view = "results"
    /\ out.shown = <<2, 1>>
    /\ Stored(6, 2, <<"ru_A", "ru_s", "ru_p">>) \in med_collection
    /\ out.conv = "u1_private"

\* C22: the /list command with no flow active replies with page 1 of the
\* records of the user, or with the empty list when there are none, and
\* changes neither the collection nor the conversation context.
C22_ListCommandReplies ==
    [][\A c \in convs :
          list_medicines_command(c) =>
              /\ out'.op \in {"send", "reply"} /\ out'.view = "list"
              /\ ShowsPage(out'.shown, out'.nav, ConvUser(c), 1)
              /\ OwnRecords(ConvUser(c)) = {} => out'.shown = << >>
              /\ UNCHANGED <<med_collection, fsm_state, fsm_data>>]_vars

\* the last call of the gateway is the main menu of a cancel of c, whose
\* context is destroyed
CancelCompleted(c) ==
    /\ out.conv = c /\ out.by \in {"cancel_handler", "cancel_action_callback"}
    /\ out.view = "main_menu"
    /\ fsm_state[c] = NoState /\ fsm_data[c] = EmptyData

\* C23: once a cancel of a conversation has completed, no record collected
\* by the add flow of that conversation is inserted, also when the cancel
\* overlapped a date submission whose insert was pending.
C23_NoInsertAfterCancel ==
    [][\A c \in convs :
          CancelCompleted(c) =>
              \A m \in Added : \A t \in tasks \ tasks' :
                  ~(t.conv = c /\ t.h = "save_new" /\ t.doc.name = m.name)]_vars

\* one conversation adding a medicine and editing one stored earlier, and
\* cancelling with every answer of the gateway to the edit of the main menu
NextCancel ==
    \/ AddFlow(AddNames, EditResults)
    \/ EditFlow({"name", "quantity"}, {"ok"})
    \/ Cancel(EditResults)
SpecCancel == InitRender /\ [][NextCancel]_vars

\* the call of the gateway g asks for the main menu by an edit of identity
\* (chat, msg), or is the new message sent after that edit was not found
MainMenuOn(g, r, chat, msg) ==
    /\ g.view = "main_menu"
    /\ \/ g.op = "edit" /\ g.chat = chat /\ g.msg = msg
       \/ r = "not_found" /\ chat # 0 /\ g.op = "fallback_send" /\ g.chat = chat

\* C24: a cancel in a flow destroys the context whatever the gateway answers
\* to the render, and asks for the main menu on the identity bound: the
\* inline token when one is bound, otherwise the calendar message of the
\* bound chat when set, otherwise the prompt message.
C24_CancelRendersOnBoundIdentity ==
    [][\A c \in convs, r \in EditResults :
          LET d == fsm_data[c] IN
          (/\ fsm_state[c] # NoState
           /\ \/ cancel_handler(c, r)
              \/ \E m \in StartMsgIds : cancel_action_callback(c, m, r))
          => /\ fsm_state'[c] = NoState /\ fsm_data'[c] = EmptyData
             /\ IF d.inline_message_id # 0
                THEN MainMenuOn(out', r, 0, d.inline_message_id)
                ELSE IF d.prompt_chat_id # 0 /\ d.calendar_message_id # 0
                THEN MainMenuOn(out', r, d.prompt_chat_id, d.calendar_message_id)
                ELSE IF d.prompt_chat_id # 0 /\ d.prompt_message_id # 0
                THEN MainMenuOn(out', r, d.prompt_chat_id, d.prompt_message_id)
                ELSE TRUE]_vars

\* a flow was cancelled, the message bound was not found, and the main menu
\* was sent as a new message with the context destroyed
C24_CancelRenderNotFound ==
    /\ out.by \in {"cancel_handler", "cancel_action_callback"}
    /\ out.view = "main_menu" /\ out.op = "fallback_send"
    /\ fsm_state[out.conv] = NoState /\ fsm_data[out.conv] = EmptyData

\* one conversation adding medicines, with every answer of the gateway to the
\* prompts, the failure of every send included
NextFallback ==
    \/ AddFlow(AddNames, RenderResults)
    \/ Cancel({"ok"})
SpecFallback == InitAll /\ [][NextFallback]_vars

\* a step of the conversation c that renders the next prompt of the add
\* flow with the answer r of the gateway
NextPromptStep(c, r) ==
    \/ \E m \in StartMsgIds : add_medicine_callback_start(c, m, r)
    \/ \E t \in tasks :
           /\ t.conv = c /\ t.h = "name_text"
           /\ find_by_name(Lower(t.txt), ConvUser(c)) = {}
           /\ name_text_found(t, r)
    \/ \E text \in QuantityTexts :
           Strip(text) # NoText /\ process_medicine_quantity(c, text, r)
    \/ \E text \in NotesTexts :
           Strip(text) # NoText /\ process_medicine_notes(c, text, r)

\* C25: when the render of the next prompt of a flow fails with an error
\* other than not modified or not found, and the fallback send fails too,
\* the context of the conversation is destroyed: the conversation is not
\* left in a state of the flow whose prompt was not delivered.
C25_UndeliveredPromptEndsFlow ==
    [][\A c \in convs :
          NextPromptStep(c, SendError) =>
              fsm_state'[c] = NoState /\ fsm_data'[c] = EmptyData]_vars

\* C26: in the edit of a name, when update_one is refused with a duplicate
\* key because another record of the owner took the name_lower after the
\* uniqueness check, the failure is handled: no exception leaves the handler,
\* no record is changed and the context of the conversation is destroyed.
C26_DuplicateOnUpdateHandled ==
    [][\A t \in tasks :
          (/\ t.h = "save_edited" /\ t.pc = "update_one" /\ t.field = "name"
           /\ find_by_id(t.med, ConvUser(t.conv)) # {}
           /\ DuplicateKey(ConvUser(t.conv), Lower(t.txt), t.med)
           /\ update_one(t))
          => /\ out'.op # "raise"
             /\ med_collection' = med_collection
             /\ fsm_state'[t.conv] = NoState
             /\ fsm_data'[t.conv] = EmptyData]_vars

\* every record of the collection has the lower-cased name as its name_lower
NameKeyIsLowerName == \A m \in med_collection : m.name_lower = Lower(m.name)

\* C27: every record of the collection has name_lower = lower-cased name at
\* all times: the insert writes both from the accepted name, an edit of the
\* name writes both in one update, and an edit of another field leaves the
\* name and the name_lower of every record as they were.
C27_NameKeyIsLowerName ==
    /\ []NameKeyIsLowerName
    /\ [][\A t \in tasks :
             (t.field # "name" /\ update_one(t)) =>
                 \A m \in med_collection : \E n \in med_collection' :
                     /\ n._id = m._id /\ n.name = m.name
                     /\ n.name_lower = m.name_lower]_vars

\* a record was renamed to a name with a capital letter
C27_RenamedWithCapital ==
    \E m \in med_collection :
        m.name = <<"B">> /\ m.name_lower = <<"b">> /\ out.view = "detail"
        /\ out.by = "_save_edited_medicine"

\* the fields of a record, and those an edit of a field may write
RecordFields ==
    {"_id", "added_by", "name", "name_lower", "quantity", "notes", "exp_date"}
Written(field) == IF field = "name" THEN {"name", "name_lower"} ELSE {field}

\* C28: a successful edit of the field F of the record R changes F of R
\* only (and name_lower with the name): the id, the owner and the other
\* fields of R are unchanged, and so is every other record.
C28_EditChangesOnlyItsField ==
    [][\A t \in tasks :
          (/\ t.h = "save_edited" /\ t.pc = "update_one"
           /\ find_by_id(t.med, ConvUser(t.conv)) # {}
           /\ update_one(t) /\ out'.op # "raise")
          => /\ \A m \in med_collection :
                    m._id # t.med => m \in med_collection'
             /\ \A m \in find_by_id(t.med, ConvUser(t.conv)) :
                    \E n \in med_collection' :
                        /\ \A f \in RecordFields \ Written(t.field) :
                               n[f] = m[f]
                        /\ n[t.field] = t.txt
             /\ Cardinality(med_collection') = Cardinality(med_collection)]_vars

\* the quantity of the second of two records was edited, the first one has
\* the quantity it had
C28_OneOfTwoEdited ==
    /\ out.by = "_save_edited_medicine" /\ out.view = "detail"
    /\ \E m, n \in med_collection :
           /\ m._id = 2 /\ m.quantity = <<"7">>
           /\ n._id = 1 /\ n.quantity = <<"5">>

\* two conversations of one user adding medicines with photos of barcodes
\* and cancelling, one medicine stored earlier
InitPhoto ==
    Start({"u1_private", "u1_group"}, MaxTasks, {Stored(1, 1, <<"b">>)}, 2)
NextPhoto ==
    \/ Barcode(EditResults)
    \/ Cancel({"ok"})
SpecPhoto == InitPhoto /\ [][NextPhoto]_vars

\* the photos that yield no name: the download, the decoding, the request
\* of the page or the extraction of the names gives nothing
YieldsNothing(photo) ==
    \/ ~photo.download \/ ~photo.barcode \/ photo.fetch # "ok"
    \/ \A i \in 1..Len(photo.rows) : photo.rows[i] = NoText
ManualEntryViews ==
    { "download_failed_enter_name", "no_barcode_enter_name",
      "no_info_enter_name", "no_names_enter_name" }

\* C29: when a photo sent in waiting_for_name yields no name, the prompt is
\* rendered again asking for the name to be typed, the state stays
\* waiting_for_name, no name is stored in the context and the conversation
\* is not ended.
C29_PhotoFailureKeepsWaitingName ==
    [][\A c \in convs, photo \in BarcodePhotos :
          (/\ fsm_state[c] = WaitingName /\ YieldsNothing(photo)
           /\ process_medicine_name_photo(c, photo))
          => /\ out'.op = "edit" /\ out'.view \in ManualEntryViews
             /\ out'.chat = fsm_data[c].prompt_chat_id
             /\ out'.msg = fsm_data[c].prompt_message_id
             /\ fsm_state'[c] = WaitingName
             /\ fsm_data'[c] = fsm_data[c] /\ fsm_data'[c].name = NoText
             /\ tasks' = tasks]_vars

\* the request of the page of a barcode failed and the name is asked for
C29_FetchFailed ==
    /\ out.by = "process_medicine_name_photo" /\ out.view = "no_info_enter_name"
    /\ fsm_state[out.conv] = WaitingName

\* the set of the names a photo resolves
ResolvedNames(photo) ==
    IF YieldsNothing(photo) THEN {}
    ELSE {photo.rows[i] : i \in 1..Len(photo.rows)} \ {NoText}

\* C30: when the barcode of a photo resolves a non-empty set of names, the
\* name chosen is one of the least length, and of the names of that length
\* the first in lexicographic order; a photo that resolves the same set of
\* names in another order of the page gives the same choice.
C30_ShortestThenFirst ==
    [][\A c \in convs, photo \in BarcodePhotos :
          (/\ fsm_state[c] = WaitingName /\ ResolvedNames(photo) # {}
           /\ process_medicine_name_photo(c, photo))
          => /\ \E t \in tasks' \ tasks :
                    /\ t.h = "name_photo" /\ t.txt \in ResolvedNames(photo)
                    /\ \A n \in ResolvedNames(photo) \ {t.txt} :
                           \/ Len(t.txt) < Len(n)
                           \/ Len(t.txt) = Len(n) /\ StrLT(t.txt, n)
             /\ \A other \in BarcodePhotos :
                    ResolvedNames(other) = ResolvedNames(photo)
                        => process_medicine_name_photo(c, other)]_vars

\* the name of a page with two names of the least length, the second of
\* them first in lexicographic order, is being looked up
C30_TieBrokenByOrder ==
    \E t \in tasks :
        /\ t.h = "name_photo" /\ t.txt = <<"B">>
        /\ out.view = "barcode_lookup"

Removed == {m \in med_collection : \A n \in med_collection' : n._id # m._id}

\* C32: a record leaves the collection only by a confirmed deletion.  The
\* delete button removes nothing and shows the confirmation; the confirm
\* button removes the record of that id of the requesting user and no
\* other; when there is no such record it reports not found and the
\* collection is unchanged.
C32_OnlyConfirmedDeleteRemoves ==
    [][/\ Removed # {} =>
              \E c \in convs, med_id \in 1..MaxOid, m \in StartMsgIds :
                  /\ delete_medicine_confirm(c, med_id, m)
                  /\ Removed = {x \in med_collection :
                                    x._id = med_id /\ x.added_by = ConvUser(c)}
                  /\ med_collection' = med_collection \ Removed
       /\ \A c \in convs, med_id \in 1..MaxOid, m \in {0} \cup StartMsgIds :
              delete_medicine_request(c, med_id, m)
              => /\ med_collection' = med_collection
                 /\ find_by_id(med_id, ConvUser(c)) # {}
                        => out'.view = "confirm_delete"
       /\ \A c \in convs, med_id \in 1..MaxOid, m \in StartMsgIds :
              (/\ \A x \in med_collection :
                      ~(x._id = med_id /\ x.added_by = ConvUser(c))
               /\ delete_medicine_confirm(c, med_id, m))
              => /\ med_collection' = med_collection
                 /\ out'.view = "not_found"]_vars

\* the record of user 1 was deleted on confirmation, that of user 2 is kept
C32_DeletedOnConfirm ==
    /\ out.by = "delete_medicine_confirm" /\ out.view = "list"
    /\ \A m \in med_collection : m.added_by = 2
    /\ med_collection # {}

\* two conversations of one user who has one medicine more than two pages
\* hold, so that the lists on screen offer every page of Pages: the list
\* is opened and paged, medicines are viewed and deleted
InitPaging ==
    Start({"u1_private", "u1_group"}, MaxTasksEdit,
          {d \in ListPool : d._id <= (MaxPage - 1) * MEDS_PER_PAGE + 1},
          Len(ListNames) + 2)
NextPaging ==
    \/ Views
    \/ Delete
SpecPaging == InitPaging /\ [][NextPaging]_vars

\* ceil(total / page size) for the records of the user in the collection
\* after the step
PageCountAfter(user) ==
    (Cardinality({m \in med_collection' : m.added_by = user})
         + MEDS_PER_PAGE - 1) \div MEDS_PER_PAGE

\* C33: every rendering of the list is made for a page p with
\* 1 <= p <= max(1, page count), the page count taken from the number of
\* records of the user when the list is rendered, also when records were
\* deleted between the rendering of a paging control and the press on it.
C33_PageWithinCount ==
    [][(out' # out /\ out'.page # 0) =>
           /\ 1 <= out'.page
           /\ out'.page <= IF PageCountAfter(ConvUser(out'.conv)) < 1 THEN 1
                           ELSE PageCountAfter(ConvUser(out'.conv))]_vars

\* ------------------------------------------------------------------------
\* the documents of user whose name_key contains the query q or its
\* transliteration
Matching(user, q) ==
    {m \in med_collection :
        /\ m.added_by = user
        /\ \/ Contains(m.name_lower, q)
           \/ Contains(m.name_lower, transliterate(q))}
\* the place of the document d among the documents M in name_key order
Rank(d, M) == Cardinality({e \in M : StrLT(e.name_lower, d.name_lower)}) + 1
\* the offset a client sends, as a number
Sent(inline_offset) ==
    IF inline_offset = NoText THEN 0 ELSE NumVal(inline_offset)

\* C34: for a non-empty inline query over an unchanged store, the page
\* answered for the empty offset and then for each continuation offset
\* holds the records of the requesting user that match, those at the places
\* offset+1 .. offset+20 in name_key order and no others, the offsets being
\* 0, 20, 40, ..., so that the pages together hold every matching record
\* once; a page holds at most 20 records; the continuation offset is
\* non-empty exactly when the page holds 20 records, it is then the offset
\* plus 20, and a page with an empty continuation offset reaches the end
\* of the matching records.
C34_PagesEnumerateMatches ==
    (out.by = "inline_search_handler" /\ Strip(out.inline_query) # NoText) =>
        LET M == Matching(ConvUser(out.conv), Lower(Strip(out.inline_query)))
            offset == Sent(out.inline_offset)
            n == Len(out.shown)
        IN
        /\ out.view = "results"
        /\ offset % INLINE_LIMIT = 0
        /\ n <= INLINE_LIMIT
        /\ \A i \in 1..n :
              \E d \in M : d._id = out.shown[i] /\ Rank(d, M) = offset + i
        /\ \A d \in M :
              (Rank(d, M) > offset /\ Rank(d, M) <= offset + INLINE_LIMIT)
                  => \E i \in 1..n : out.shown[i] = d._id
        /\ (out.next_offset # NoText) <=> (n = INLINE_LIMIT)
        /\ out.next_offset # NoText =>
              Sent(out.next_offset) = offset + INLINE_LIMIT
        /\ out.next_offset = NoText => offset + n = Cardinality(M)

\* C34 witness: the third page of an enumeration is answered: it holds the
\* 41st matching record and its continuation offset is empty
C34_ThirdPageEndsEnumeration ==
    /\ out.by = "inline_search_handler"
    /\ out.view = "results"
    /\ out.next_offset = NoText
    /\ Sent(out.inline_offset) = 2 * INLINE_LIMIT
    /\ LET M == Matching(ConvUser(out.conv), Lower(Strip(out.inline_query)))
       IN  /\ Cardinality(M) > 2 * INLINE_LIMIT
           /\ Len(out.shown) = Cardinality(M) - 2 * INLINE_LIMIT
           /\ \E d \in M : /\ d._id = out.shown[1]
                           /\ Rank(d, M) = 2 * INLINE_LIMIT + 1

\* ------------------------------------------------------------------------
\* the owner user has a record in coll that expires on the day T + 30 or
\* before it
Due(coll, user, T) ==
    \E m \in coll :
        m.added_by = user /\ DateLE(Expiry(m), AddDays(T, days_threshold))

\* C35: in a run of the reminder on the day T, the step that decides on the
\* reminder of an owner sends one iff the expiring-soon section read for
\* that owner or the expired section is not empty; the reminder goes to
\* that owner and lists only records that owner had in a collection the
\* run has read; in a run over an unchanged collection an owner is sent a
\* reminder iff the owner has a record with expiry <= T + 30, so that at
\* the end of the run the owners that were sent one are those owners and
\* an owner whose records all expire later was sent nothing.
C35_DigestIffDue ==
    [][\A t \in tasks : \A t2 \in tasks' :
          ( /\ t.h = "daily_reminder" /\ t2.h = "daily_reminder" /\ t2 # t
            /\ t.pc = "find_expired" ) =>
              LET T == t.sweep.today
                  user == Head(t.sweep.users)
                  new == t2.sweep.sent \ t.sweep.sent
                  read == t2.sweep.store
              IN
              /\ (new # {}) <=>
                     \/ t.sweep.soon # << >>
                     \/ \E m \in OwnedBy(user) : DateLT(Expiry(m), T)
              /\ \A d \in new :
                    /\ d.user = user
                    /\ out'.by = "daily_reminder" /\ out'.chat = user
                    /\ \A id \in LineIds(d.digest.soon) \cup
                                 LineIds(d.digest.expired) :
                          \E coll \in read : \E m \in coll :
                              m._id = id /\ m.added_by = user
              /\ Cardinality(read) = 1 =>
                    /\ (new # {}) <=> Due(med_collection, user, T)
                    /\ t2.pc = "idle" =>
                          {d.user : d \in t2.sweep.sent} =
                              {u \in {m.added_by : m \in med_collection} :
                                  Due(med_collection, u, T)}]_vars

\* C35 witness: a run over an unchanged collection has ended; the first
\* owner, whose only record expires 31 days after the day of the run, was
\* sent nothing and the second owner was sent a reminder
C35_LaterOwnerSentNothing ==
    \E t \in SweepTasks :
        /\ t.pc = "idle" /\ t.sweep.store = {med_collection}
        /\ OwnedBy(1) # {}
        /\ \A m \in OwnedBy(1) :
               Expiry(m) = AddDays(t.sweep.today, days_threshold + 1)
        /\ {d.user : d \in t.sweep.sent} = {2}

\* ------------------------------------------------------------------------
\* the context of c names an ordinary message, an inline message
BoundToMessage(c) ==
    fsm_data[c].prompt_chat_id # 0 /\ fsm_data[c].prompt_message_id # 0
BoundToInline(c) == fsm_data[c].inline_message_id # 0

\* C36: a conversation with an active add flow is bound to an ordinary
\* (chat, message) pair and to no inline token; a conversation with an
\* active edit flow is bound to an ordinary pair or to an inline token, not
\* to both and not to neither; the calendar identity, when set, is the
\* message of the pair, or the inline token when there is no pair.
C36_OnePromptTarget ==
    \A c \in convs :
        /\ fsm_state[c] \in AddStates =>
               BoundToMessage(c) /\ ~BoundToInline(c)
        /\ fsm_state[c] = WaitingNewValue =>
               /\ BoundToMessage(c) \/ BoundToInline(c)
               /\ ~(BoundToMessage(c) /\ BoundToInline(c))
        /\ (fsm_state[c] # NoState /\ fsm_data[c].calendar_message_id # 0) =>
               fsm_data[c].calendar_message_id =
                   IF BoundToMessage(c) THEN fsm_data[c].prompt_message_id
                   ELSE fsm_data[c].inline_message_id

\* ------------------------------------------------------------------------
\* Conversations whose events are handled one at a time
\* ------------------------------------------------------------------------
\* no handler of the conversation c is waiting for the database
Idle(c) == \A t \in tasks : t.conv # c
\* the names typed, and the name keys they give
SerialNames == { <<" ">>, <<"a">>, <<"b">> }
\* the answers of the gateway to an edit: done, or the message is gone and
\* the prompt is sent anew
SerialResults == {"ok", "not_found"}
SerialKeys == {Lower(Strip(text)) : text \in SerialNames} \ {NoText}
ActiveFlows == {c \in convs : fsm_state[c] # NoState}
\* an add flow is started while an identifier and a name are left for it
Startable ==
    /\ next_oid + Cardinality(ActiveFlows) <= MaxOid
    /\ Cardinality(med_collection) + Cardinality(ActiveFlows)
           < Cardinality(SerialKeys)
InitSerial == Start({"u1_private", "u1_group"}, MaxTasks, {}, 1)
\* an event of a conversation is taken when the handler of the event before
\* has ended; every call of the gateway and of the database returns
NextSerial ==
    \/ \E c \in convs, m \in StartMsgIds :
           Idle(c) /\ Startable /\ add_medicine_command(c, m)
    \/ \E c \in convs, text \in SerialNames :
           Idle(c) /\ process_medicine_name_text(c, text)
    \/ \E t \in tasks, r \in SerialResults : name_text_found(t, r)
    \/ \E c \in convs, text \in QuantityTexts, r \in SerialResults :
           Idle(c) /\ process_medicine_quantity(c, text, r)
    \/ \E c \in convs, text \in NotesTexts, r \in SerialResults :
           Idle(c) /\ process_medicine_notes(c, text, r)
    \/ \E c \in convs, text \in DateTexts :
           Idle(c) /\ process_medicine_exp_date_text(c, text)
    \/ \E c \in convs, day \in CalendarDays, m \in StartMsgIds :
           Idle(c) /\ handle_date_select(c, day, m)
    \/ \E t \in tasks : insert_one(t)
    \/ \E c \in convs, r \in SerialResults : Idle(c) /\ cancel_handler(c, r)
SpecSerial == InitSerial /\ [][NextSerial]_vars

\* the inputs the add flow of c is promised: a name that no record of the
\* user has, a non-empty quantity, non-empty notes, a day of the calendar
\* that is not in the past
ValidName(c) ==
    \E text \in SerialNames :
        /\ Strip(text) # NoText
        /\ find_by_name(Lower(Strip(text)), ConvUser(c)) = {}
        /\ Idle(c) /\ process_medicine_name_text(c, text)
ValidQuantity(c) ==
    \E text \in QuantityTexts, r \in SerialResults :
        /\ Strip(text) # NoText
        /\ Idle(c) /\ process_medicine_quantity(c, text, r)
ValidNotes(c) ==
    \E text \in NotesTexts, r \in SerialResults :
        /\ Strip(text) # NoText
        /\ Idle(c) /\ process_medicine_notes(c, text, r)
ValidDate(c) ==
    \E day \in CalendarDays, m \in StartMsgIds :
        /\ ~DateLT(date(day[1], day[2], day[3]), today)
        /\ fsm_state[c] = WaitingExpiry
        /\ Idle(c) /\ handle_date_select(c, day, m)
\* the call the handler of c waits for returns
Returns(c) ==
    \E t \in tasks :
        /\ t.conv = c
        /\ \/ \E r \in SerialResults : name_text_found(t, r)
           \/ insert_one(t)
\* the add flows receive their inputs and the calls return
SpecSerialFair ==
    /\ SpecSerial
    /\ \A c \in {"u1_private", "u1_group"} :
           /\ SF_vars(ValidName(c)) /\ SF_vars(ValidQuantity(c))
           /\ SF_vars(ValidNotes(c)) /\ SF_vars(ValidDate(c))
           /\ WF_vars(Returns(c))

\* C37: with the events of a conversation handled one at a time and every
\* call returning, an add flow that receives a non-duplicate name, a
\* non-empty quantity, non-empty notes and a date not in the past reaches
\* the end: the state is cleared and the context destroyed, no handler of
\* the conversation waiting.
C37_AddFlowTerminates ==
    \A c \in {"u1_private", "u1_group"} :
        (fsm_state[c] \in AddStates) ~>
            (fsm_state[c] = NoState /\ fsm_data[c] = EmptyData /\ Idle(c))

\* C37 witness: an add flow has gone through its four inputs and ended
\* committed: the record is stored and the context of the conversation is
\* destroyed
C37_FlowCommitted ==
    /\ out.by = "_save_new_medicine" /\ out.view = "list"
    /\ fsm_state[out.conv] = NoState /\ fsm_data[out.conv] = EmptyData
    /\ med_collection # {}

\* ------------------------------------------------------------------------
\* The routing of the commands /add and /list
\* ------------------------------------------------------------------------
CommandAdd == <<"/", "a", "d", "d">>
CommandList == <<"/", "l", "i", "s", "t">>
\* a message with the text of a command: the command handlers take it when
\* the conversation has no state, and the text handler of the state of the
\* conversation takes it otherwise
dp_message(c, text, m, r) ==
    IF fsm_state[c] = NoState
    THEN IF text = CommandAdd THEN add_medicine_command(c, m)
         ELSE list_medicines_command(c)
    ELSE IF fsm_state[c] = WaitingName
    THEN process_medicine_name_text(c, text)
    ELSE IF fsm_state[c] = WaitingQuantity
    THEN process_medicine_quantity(c, text, r)
    ELSE IF fsm_state[c] = WaitingNotes
    THEN process_medicine_notes(c, text, r)
    ELSE IF fsm_state[c] = WaitingExpiry
    THEN process_medicine_exp_date_text(c, text)
    ELSE process_new_value_text(c, text)
\* one conversation with a medicine stored earlier: flows are started by
\* command and by button, and the commands and the buttons of the list
\* and of the detail view are used at any time
NextCommands ==
    \/ \E c \in convs, text \in {CommandAdd, CommandList}, m \in StartMsgIds :
           dp_message(c, text, m, "ok")
    \/ \E c \in convs, m \in StartMsgIds :
           add_medicine_callback_start(c, m, "ok")
    \/ \E c \in convs : process_medicine_name_text(c, <<"a">>)
    \/ \E t \in tasks : name_text_found(t, "ok")
    \/ \E c \in convs : process_medicine_quantity(c, <<"5">>, "ok")
    \/ \E c \in convs : process_medicine_notes(c, <<"-">>, "ok")
    \/ \E c \in convs : process_medicine_exp_date_text(c, isoformat(Today0))
    \/ \E t \in tasks : insert_one(t)
    \/ \E c \in convs, med_id \in 1..MaxOid, m \in StartMsgIds :
           edit_medicine_field_start(c, med_id, "name", m)
    \/ \E t \in tasks : edit_start_found(t, "ok")
    \/ \E c \in convs : process_new_value_text(c, <<"B">>)
    \/ \E t \in tasks : new_value_found(t)
    \/ \E t \in tasks : save_edited_find_current(t)
    \/ \E t \in tasks : update_one(t)
    \/ \E c \in convs : cancel_handler(c, "ok")
    \/ \E c \in convs, med_id \in 1..MaxOid, m \in StartMsgIds :
           view_medicine_callback(c, med_id, m)
    \/ \E c \in convs, med_id \in 1..MaxOid, m \in StartMsgIds :
           delete_medicine_request(c, med_id, m)
    \/ \E c \in convs, m \in StartMsgIds :
           list_medicines_callback(c, 1, m)
    \/ \E c \in convs, m \in StartMsgIds : handle_page_callback(c, 1, m)
    \/ Delete
SpecCommands == InitRender /\ [][NextCommands]_vars

\* an action that starts a flow or opens the list, a page, the detail view
\* or a deletion comes from the conversation c
StartOrBrowse(c) ==
    \/ \E text \in {CommandAdd, CommandList}, m \in StartMsgIds :
           dp_message(c, text, m, "ok")
    \/ \E m \in StartMsgIds : add_medicine_callback_start(c, m, "ok")
    \/ \E med_id \in 1..MaxOid, m \in StartMsgIds :
           \/ edit_medicine_field_start(c, med_id, "name", m)
           \/ view_medicine_callback(c, med_id, m)
           \/ delete_medicine_request(c, med_id, m)
           \/ delete_medicine_confirm(c, med_id, m)
    \/ \E m \in StartMsgIds :
           \/ list_medicines_callback(c, 1, m)
           \/ handle_page_callback(c, 1, m)

\* C38: while an add flow or an edit flow is active in a conversation, an
\* add-start, edit-start, view, list, page, delete-request or
\* delete-confirm action coming from that conversation changes neither the
\* dialogue state, nor the context, nor any record.
C38_StartsIgnoredInFlow ==
    [][\A c \in convs :
          (fsm_state[c] # NoState /\ StartOrBrowse(c)) =>
              UNCHANGED <<fsm_state, fsm_data, med_collection>>]_vars

\* ------------------------------------------------------------------------
\* the conversation c edits the expiry date of a record
EditsExpiry(c) ==
    /\ fsm_state[c] = WaitingNewValue
    /\ fsm_data[c].med_id # 0
    /\ fsm_data[c].field_to_edit = "exp_date"

\* C39: the press of a day button changes no record itself; it starts the
\* insert of a record only in waiting_for_exp_date of the add flow, and the
\* update of a record only in waiting_for_new_value with the expiry date
\* as the field edited, the update being that of the expiry date; with no
\* active flow, in waiting_for_name, waiting_for_quantity or
\* waiting_for_notes, or while another field is edited, it starts no save
\* and changes no record.
C39_DaySelectionSaves ==
    [][\A c \in convs, day \in CalendarDays, m \in StartMsgIds :
          handle_date_select(c, day, m) =>
              /\ med_collection' = med_collection
              /\ tasks \subseteq tasks'
              /\ \A t \in tasks' \ tasks :
                    /\ t.conv = c
                    /\ \/ t.h = "save_new" /\ fsm_state[c] = WaitingExpiry
                       \/ /\ t.h = "save_edited" /\ t.field = "exp_date"
                          /\ EditsExpiry(c)
              /\ (fsm_state[c] # WaitingExpiry /\ ~EditsExpiry(c)) =>
                    tasks' = tasks]_vars

\* C39 witness: a day was pressed outside the expiry step of a flow, with a
\* record stored: the main menu is rendered, the conversation has no state,
\* no save was started and the record has its expiry date
C39_DayPressedWhileRenaming ==
    /\ out.by = "handle_date_select" /\ out.view = "main_menu"
    /\ fsm_state[out.conv] = NoState /\ tasks = {}
    /\ \E doc \in med_collection : doc.exp_date = isoformat(Today0)
    /\ \A doc \in med_collection : doc.exp_date = isoformat(Today0)

\* ------------------------------------------------------------------------
\* the context without the year and the month of the calendar
WithoutCalendarMonth(d) ==
    [d EXCEPT !.calendar_year = 0, !.calendar_month = 0]

\* C40: a press on a navigation button of the calendar changes neither the
\* dialogue state, nor the collected values, nor the bound message
\* identities, nor a record, and starts no save: of the context only the
\* year and the month of the calendar change; a press on a header, weekday
\* or blank cell changes nothing of these.
C40_CalendarPressesKeepFlow ==
    [][\A c \in convs, m \in StartMsgIds :
          /\ \A action \in NavActions, r \in EditResults :
                \A cal \in CalendarShown(c) :
                    handle_calendar_change(c, action, cal[1], cal[2], m, r) =>
                        /\ UNCHANGED <<fsm_state, med_collection, tasks>>
                        /\ \A c2 \in Convs :
                              /\ c2 # c => fsm_data'[c2] = fsm_data[c2]
                              /\ WithoutCalendarMonth(fsm_data'[c2]) =
                                     WithoutCalendarMonth(fsm_data[c2])
          /\ handle_calendar_ignore(c, m) =>
                UNCHANGED <<fsm_state, fsm_data, med_collection, tasks>>]_vars

\* C40 witness: after a navigation to another month a header cell was
\* pressed: the add flow still waits for the expiry date with the name, the
\* quantity and the notes collected and the calendar message bound
C40_PressedAfterNavigation ==
    /\ out.by = "handle_calendar_ignore"
    /\ fsm_state[out.conv] = WaitingExpiry
    /\ fsm_data[out.conv].calendar_month # Today0[2]
    /\ WithoutCalendarMonth(fsm_data[out.conv]) =
           WithoutCalendarMonth(AtCalendar(out.conv))

=============================================================================
